---- MODULE Spec2Model ----
(***************************************************************************)
(* OptionInsightMVP: the day-by-day backtest of src/backtest.py            *)
(* (backtest_single_leg, should_exit) with the pipeline stages it calls,   *)
(* and the multi-symbol scan loop of main.py.                              *)
(*                                                                         *)
(* Dates are day numbers.  Prices, Greeks and thresholds are small         *)
(* integers standing for the floats of the program; the Black-Scholes      *)
(* price is computed in fixed point.  NaN is a value of its own, tested    *)
(* with IsNaN, and every comparison with it is false as in IEEE            *)
(* arithmetic.                                                             *)
(***************************************************************************)
EXTENDS Integers, Sequences, FiniteSets, TLC

\* ---------------------------------------------------------------- bounds
MaxDay     == 2     \* the backtest runs over the days 0..MaxDay
NumStrikes == 2     \* strikes listed per expiration
MaxChain   == 2     \* rows of one fetched option chain
MaxSymbols == 3     \* symbols of one scan

\* ------------------------------------------------------ program constants
NaN             == -2000000000   \* math.nan / np.nan
LOOKBACK        == 30      \* cfg.get("lookback_days", 30)
VOL_WINDOW      == 20      \* pct_change().rolling(20).std()
RSI_OVERBOUGHT  == 70      \* tech_filters.get("rsi_overbought", 70)
CONTRACT_MULT   == 100     \* (exit_price - entry_price) * 100

Days      == 0..MaxDay
ExpDates  == 0..(MaxDay + 1)
Strikes   == 1..NumStrikes

IsNaN(x) == x = NaN

\* Python's None (an argument left out, the value assertIsNone accepts)
None == NaN - 1

\* ------------------------------------------------------------- variables
VARIABLES
  mode,               \* "backtest" (python -m src.backtest), "scan" (main.py)
                      \* or "calc" (one call of a function of the library)
  \* --- backtest_single_leg: arguments, locals and position in the code
  pc,                 \* "seek" | "hold" | "settle" | "done" | "raised"
  today,              \* date.today() / datetime.today().date()
  start,              \* pd.to_datetime(start_date).date()
  last,               \* pd.to_datetime(end_date).date()
  current,
  stock_hist,         \* [pre: bars dated before day 0, dates: bar dates in Days]
  tech_filters,
  results,
  entry, entry_date, entry_price, exp_date,
  exit_date, exit_price, temp_exit_date, found_exit_signal,
  \* --- the external data the run reads
  listing,            \* the provider's live option listing
  chain_fetches,      \* the simulated days on which get_option_chain was called
  indicatorRows,      \* compute_indicators(...).loc[date], per bar date, once computed
  \* --- main(): locals and position in the code
  mainPc,             \* "loop" | "done" | "raised"
  data_source,        \* config("data_source")
  symbolIdx, all_results, mainLog,
  \* --- one call of a library function: its arguments, progress and result
  calcPc,             \* "idle" | "call" | "checked" | "priced" | "greeks" |
                      \* "entry" | "skipped" | "raised" | "return"
  call,               \* [fn |-> name, ...the arguments]
  ret,                \* the value returned, once calcPc = "return"
  \* --- run_auth_flow (auth_http.py): the main thread and the callback server
  authPc,             \* "idle" | "start" | "wait" | "exchange" | "done" | "failed"
  auth_code,          \* the global auth_code: None or the code of a callback
  httpd,              \* "none" | "serving" | "stopping" | "stopped"
  responses,          \* the requests do_GET has served and the status it sent
  \* --- SchwabStreamer.run (streamer.py)
  streamPc,           \* "idle" | "recv" | "finally" | "returned"
  ws,                 \* self.ws: [connected |-> BOOLEAN]
  received,           \* the raw messages ws.recv() has returned
  delivered,          \* the arguments of the calls of on_message_callback
  handler             \* the except clause that ended the loop, "none" before

btVars   == <<pc, today, start, last, current, stock_hist, tech_filters, results,
              entry, entry_date, entry_price, exp_date, exit_date, exit_price,
              temp_exit_date, found_exit_signal, listing, chain_fetches,
              indicatorRows>>
mainVars == <<mainPc, data_source, symbolIdx, all_results, mainLog>>
authVars   == <<authPc, auth_code, httpd, responses>>
streamVars == <<streamPc, ws, received, delivered, handler>>
calcVars == <<calcPc, call, ret, authVars, streamVars>>
vars     == <<mode, btVars, calcVars, mainVars, calcVars>>

\* ------------------------------------------------------- the option chain
\* fetch_data.get_option_chain (polygon branch): one row per listed contract.
\* The contract symbol encodes expiration and strike, as OCC symbols do.
ProviderRow(exp, k, lastPrice) ==
  [contractSymbol    |-> <<exp, k>>,
   strike            |-> k,
   type              |-> "call",
   expiration        |-> exp,
   lastPrice         |-> lastPrice,
   impliedVolatility |-> 3,
   openInterest      |-> 5]

\* The snapshot endpoint knows no simulated date: every listing the model
\* draws holds the first strikes of one expiration, MaxChain at most, each quoted
\* or not (lastPrice None when the day has no close and no bid/ask).
Min(a, b) == IF a <= b THEN a ELSE b
Max(a, b) == IF a >= b THEN a ELSE b

Listings ==
  { [k \in 1..Min(MaxChain, NumStrikes) |->
       ProviderRow(exp, k, IF k \in unq THEN NaN ELSE 4)] :
      exp \in ExpDates, unq \in {{}, {1}, {2}} }

\* -------------------------------------------------------- pricing_models.py
\* ------------------------------------------------ fixed-point arithmetic
\* Real quantities are integers in fixed point: rates, volatilities, d1, d2
\* and probabilities in units of 1/ONE, prices in units of 1/MONEY dollar,
\* times to expiry in units of 1/TIME year. Every intermediate value stays
\* within 32 bits.
ONE   == 10000000
MONEY == 100000
TIME  == 1000000000

Sign(x) == IF x < 0 THEN -1 ELSE 1
Mag(x)  == IF x < 0 THEN -x ELSE x

\* s[i] + ... + s[Len(s)]
RECURSIVE SumFrom(_, _)
SumFrom(s, i) == IF i > Len(s) THEN 0 ELSE s[i] + SumFrom(s, i + 1)

\* a / n, rounded
RoundDiv(a, n) == Sign(a) * ((Mag(a) + (n \div 2)) \div n)

\* a * b / ONE, rounded, from the sign and the base-10^4 limbs of |a| and |b|
MulLimbs(sgn, a1, a0, b1, b0) ==
  sgn * (a1 * b1 * 10 + ((a1 * b0 + a0 * b1) \div 1000)
           + ((((a1 * b0 + a0 * b1) % 1000) * 10000 + a0 * b0 + 5000000)
                \div 10000000))

Mul(a, b) ==
  MulLimbs(Sign(a) * Sign(b), Mag(a) \div 10000, Mag(a) % 10000,
           Mag(b) \div 10000, Mag(b) % 10000)

\* q * 10^n + (r * 10^n) \div b, for 0 <= r < b, one decimal digit at a time
RECURSIVE LongDiv(_, _, _, _)
LongDiv(q, r, b, n) ==
  IF n = 0 THEN q
  ELSE LongDiv(q * 10 + ((r * 10) \div b), (r * 10) % b, b, n - 1)

\* a * ONE / b for b > 0
Div(a, b) == Sign(a) * LongDiv(Mag(a) \div b, Mag(a) % b, b, 7)

\* integer square root, Newton's iteration from above: y is the step after x
RECURSIVE ISqrtFrom(_, _, _)
ISqrtFrom(n, x, y) ==
  IF y >= x THEN x ELSE ISqrtFrom(n, y, (y + (n \div y)) \div 2)

ISqrtStart(n, x) == ISqrtFrom(n, x, (x + (n \div x)) \div 2)

ISqrt(n) == IF n < 2 THEN n ELSE ISqrtStart(n, IF n > 65536 THEN 65536 ELSE n)

\* one Newton step for the root of T in 1/ONE, from the estimate x
SqrtStep(T, x) == (x + LongDiv(T \div x, T % x, x, 5)) \div 2

\* np.sqrt(T): T in 1/TIME year, the root in 1/ONE
SqrtT(T) == SqrtStep(T, SqrtStep(T, SqrtStep(T, ISqrt(T) * 316 + 1)))

LN2 == 6931472

\* the series z + z^3/3 + z^5/5 + ... from the term t = z^n on
RECURSIVE LnSeries(_, _, _)
LnSeries(t, z2, n) ==
  IF t = 0 THEN 0
  ELSE Sign(t) * (Mag(t) \div n) + LnSeries(Mul(t, z2), z2, n + 2)

\* ln((1 + z) / (1 - z))
LnOfRatio(z) == 2 * LnSeries(z, Mul(z, z), 1)

\* np.log(x) for x > 0, in 1/ONE
RECURSIVE Ln(_)
Ln(x) ==
  IF x > 2 * ONE THEN Ln(x \div 2) + LN2
  ELSE IF x < ONE \div 2 THEN Ln(x * 2) - LN2
  ELSE LnOfRatio(Div(x - ONE, x + ONE))

\* p / n, rounded
ExpTerm(p, n) == Sign(p) * ((Mag(p) + (n \div 2)) \div n)

\* the Taylor series of exp at y, -1/2 <= y <= 0, from the term t = y^n/n! on
RECURSIVE ExpSeries(_, _, _)
ExpSeries(t, y, n) ==
  IF t = 0 THEN 0 ELSE t + ExpSeries(ExpTerm(Mul(t, y), n + 1), y, n + 1)

Square(h) == Mul(h, h)

\* np.exp(y) for y <= 0, in 1/ONE
RECURSIVE Exp(_)
Exp(y) ==
  IF y < -17 * ONE THEN 0
  ELSE IF y < -(ONE \div 2) THEN Square(Exp(-((-y) \div 2)))
  ELSE ExpSeries(ONE, y, 0)

INV_SQRT_2PI == 3989423

\* norm.pdf(x)
Pdf(x) == Mul(INV_SQRT_2PI, Exp(-(Mul(x, x) \div 2)))

\* the term of degree n from the term t of degree n - 2
CdfTerm(t, x2, n) == Mul(t, x2) \div n

\* x + x^3/3 + x^5/(3*5) + ... from the term t of degree n on, three terms a
\* step
RECURSIVE CdfSeries(_, _, _)
CdfSeries(t, x2, n) ==
  IF t = 0 THEN 0
  ELSE t + CdfTerm(t, x2, n + 2)
         + CdfTerm(CdfTerm(t, x2, n + 2), x2, n + 4)
         + CdfSeries(CdfTerm(CdfTerm(CdfTerm(t, x2, n + 2), x2, n + 4), x2, n + 6),
                     x2, n + 6)

\* the continued fraction x + 1/(x + 2/(x + 3/...)) of the upper tail
CF_DEPTH == 12

\* f is the fraction from level k + 1 down, f >= x > 0
RECURSIVE TailFraction(_, _, _)
TailFraction(x, k, f) ==
  IF k = 0 \/ f <= 0 THEN f ELSE TailFraction(x, k - 1, x + Div(k * ONE, f))

\* norm.cdf(x) for 0 <= x < 5.3 from the density p at x
CdfFromPdf(x, p) ==
  IF x <= 2 * ONE
    THEN (ONE \div 2) + Mul(p, CdfSeries(x, Mul(x, x), 1))
    ELSE ONE - Div(p, TailFraction(x, CF_DEPTH, x))

\* norm.cdf(x)
RECURSIVE Cdf(_)
Cdf(x) ==
  IF x < 0 THEN ONE - Cdf(-x)
  ELSE IF x >= 53000000 THEN ONE
  ELSE CdfFromPdf(x, Pdf(x))

\* dollars (the unit of the chain's strike and lastPrice) to 1/MONEY dollar
Dollars(x) == IF IsNaN(x) THEN NaN ELSE x * MONEY

SIGMA_FALLBACK == 5000000    \* sigma = 0.5
RISK_FREE_RATE == 300000     \* r = 0.03
EPSILON_T      == 1000       \* T = 1e-6
DAY            == 2739726    \* 1 / 365.0
ISCLOSE_ATOL   == 10         \* np.isclose(T, 0): |T| <= 1e-8

\* num / den, with |d1| saturated at 10 where norm.cdf is 0 or 1
SatDiv(num, den) ==
  IF den = 0 \/ Mag(num) \div 10 >= den THEN Sign(num) * 10 * ONE
  ELSE Div(num, den)

\* variant: the strike of the put not discounted
BSPrice_PutUndiscounted(S, K, disc, d1, d2, option_type) ==
  IF option_type = "call"
    THEN Mul(Cdf(d1), S) - Mul(Mul(disc, Cdf(d2)), K)
    ELSE Mul(Cdf(-d2), K) - Mul(Cdf(-d1), S)

\* lines 25-28: the call or put value from d1, d2 and np.exp(-r * T)
BSPrice(S, K, disc, d1, d2, option_type) ==
  IF option_type = "call"
    THEN Mul(Cdf(d1), S) - Mul(Mul(disc, Cdf(d2)), K)
    ELSE Mul(Mul(disc, Cdf(-d2)), K) - Mul(Cdf(-d1), S)

\* line 23: d2 = d1 - sigma * np.sqrt(T), from the quotient where d1 is
\* saturated
D2(num, vs, d1) ==
  IF Mag(d1) < 10 * ONE THEN d1 - vs ELSE SatDiv(num - Mul(vs, vs), vs)

\* line 22: d1 = num / vs
BSFromD1(S, K, disc, num, vs, d1, option_type) ==
  BSPrice(S, K, disc, d1, D2(num, vs, d1), option_type)

\* lines 22-28, with years = T in 1/ONE year and vs = sigma * np.sqrt(T)
BSAt(S, K, years, r, sigma, vs, option_type) ==
  BSFromD1(S, K, Exp(-Mul(r, years)),
           Ln(Div(S, K)) + Mul(r + (Mul(sigma, sigma) \div 2), years), vs,
           SatDiv(Ln(Div(S, K)) + Mul(r + (Mul(sigma, sigma) \div 2), years), vs),
           option_type)

\* lines 22-31: d1, d2 and the call or put value; r undefined gives an
\* undefined value
BSFormula(S, K, T, r, sigma, option_type) ==
  IF IsNaN(r) THEN NaN
  ELSE BSAt(S, K, (T + 50) \div 100, r, sigma, Mul(sigma, SqrtT(T)), option_type)

\* the arguments the runs price with, and the values of the formula there,
\* tabulated once (@@ yields the function as an explicit table)
BSGrid ==
  ({Dollars(1), Dollars(2)} \X {Dollars(k) : k \in 1..(NumStrikes + 1)}
     \X {d * DAY : d \in 1..(MaxDay + 2)}
     \X {RISK_FREE_RATE} \X {2000000, SIGMA_FALLBACK} \X {"call", "put"})
  \cup
  ({Dollars(85), Dollars(90), Dollars(100), Dollars(110)} \X {Dollars(100)}
     \X {500, EPSILON_T, 10 * DAY, 250000000, TIME}
     \X {0, 500000} \X {2000000, ONE} \X {"call", "put"})

BSValues ==
  [a \in BSGrid |-> BSFormula(a[1], a[2], a[3], a[4], a[5], a[6])] @@ <<>>

BSValue(S, K, T, r, sigma, option_type) ==
  IF <<S, K, T, r, sigma, option_type>> \in BSGrid
    THEN BSValues[<<S, K, T, r, sigma, option_type>>]
    ELSE BSFormula(S, K, T, r, sigma, option_type)

\* variant: the price returned as computed
Floor0_Raw(price) == price

\* max(0, price): Python's max keeps its first argument when the comparison
\* with an undefined price is false
Floor0(price) == IF IsNaN(price) THEN 0 ELSE Max(0, price)

\* variant: every T below the epsilon replaced by it
ClampT_BelowEpsilon(T) == IF T < EPSILON_T THEN EPSILON_T ELSE T

\* line 20: np.isclose(T, 0) holds for |T| <= 1e-8; T becomes 1e-6
ClampT(T) == IF Mag(T) <= ISCLOSE_ATOL THEN EPSILON_T ELSE T

\* variant: every option_type other than 'call' priced as a put
black_scholes_PutDefault(S, K, T, r, sigma, option_type) ==
  IF IsNaN(T) \/ IsNaN(sigma) \/ IsNaN(S) \/ IsNaN(K) THEN NaN
  ELSE IF T < 0 \/ sigma <= 0 \/ S <= 0 \/ K <= 0 THEN NaN
  ELSE Floor0(BSValue(S, K, ClampT(T), r, sigma,
                      IF option_type = "call" THEN "call" ELSE "put"))

black_scholes(S, K, T, r, sigma, option_type) ==
  IF IsNaN(T) \/ IsNaN(sigma) \/ IsNaN(S) \/ IsNaN(K) THEN NaN
  ELSE IF T < 0 \/ sigma <= 0 \/ S <= 0 \/ K <= 0 THEN NaN
  ELSE IF option_type \notin {"call", "put"} THEN NaN
  ELSE Floor0(BSValue(S, K, ClampT(T), r, sigma, option_type))

\* variant: a contract expiring today keeps a time to expiry of 0
TimeToExpiry_TodayIncluded(exp, todayDt) ==
  IF IsNaN(exp) THEN NaN
  ELSE IF exp - todayDt < 0 THEN NaN ELSE (exp - todayDt) * DAY

\* lines 53-59: an unparseable expiration is coerced to NaT and its T is
\* undefined; days_to_expiry <= 0 -> NaN, else days / 365.0
TimeToExpiry(exp, todayDt) ==
  IF IsNaN(exp) THEN NaN
  ELSE IF exp - todayDt <= 0 THEN NaN ELSE (exp - todayDt) * DAY

\* variant: an undefined hist_vol replaced by the fallback as well
PricingSigma_Fallback(hist_vol) ==
  IF hist_vol = None \/ IsNaN(hist_vol) \/ hist_vol <= 0 THEN SIGMA_FALLBACK ELSE hist_vol

\* lines 66-75: sigma chosen by calculate_theoretical_prices from hist_vol;
\* None and a value that is not positive give 0.5, float(nan) stays NaN
PricingSigma(hist_vol) ==
  IF hist_vol = None THEN SIGMA_FALLBACK
  ELSE IF IsNaN(hist_vol) THEN NaN
  ELSE IF hist_vol <= 0 THEN SIGMA_FALLBACK
  ELSE hist_vol

Sub(a, b) == IF IsNaN(a) \/ IsNaN(b) THEN NaN ELSE a - b

calculate_theoretical_prices(df, stock_close, hist_vol, todayDt) ==
  IF df = <<>> THEN df
  ELSE [i \in 1..Len(df) |->
         LET row   == df[i]
             T     == TimeToExpiry(row.expiration, todayDt)
             theo  == black_scholes(Dollars(stock_close), Dollars(row.strike), T,
                                    RISK_FREE_RATE, PricingSigma(hist_vol),
                                    row.type)
         IN [contractSymbol    |-> row.contractSymbol,
             strike            |-> row.strike,
             type              |-> row.type,
             expiration        |-> row.expiration,
             lastPrice         |-> row.lastPrice,
             impliedVolatility |-> row.impliedVolatility,
             openInterest      |-> row.openInterest,
             T                 |-> T,
             theoretical_price |-> theo,
             mispricing        |-> Sub(Dollars(row.lastPrice), theo)]]

\* ----------------------------------------------------------------- greeks.py
\* df['impliedVolatility'].mean(), in 1/ONE (the column is in tenths)
MeanIV(iv) ==
  IF iv = <<>> THEN NaN ELSE RoundDiv(SumFrom(iv, 1) * (ONE \div 10), Len(iv))

ImpliedVols(df) ==
  LET known == SelectSeq(df, LAMBDA row : ~IsNaN(row.impliedVolatility))
  IN [i \in 1..Len(known) |-> known[i].impliedVolatility]

\* lines 12-16: float(sigma) as it is, zero, negative and NaN included; float(None)
\* raises and the mean implied volatility of the chain is used
GreeksSigma(sigma, df) == IF sigma = None THEN MeanIV(ImpliedVols(df)) ELSE sigma

\* delta in tenths; with sigma = 0 the division by sigma*sqrt(T) makes d1
\* infinite and delta 1 or 0, theta loses its volatility term; a negative
\* sigma changes the sign of d1.
GreekDelta(S, K, sigma) ==
  IF IsNaN(sigma) \/ IsNaN(S) THEN NaN
  ELSE IF sigma = 0 THEN (IF S >= K THEN 10 ELSE 0)
  ELSE IF sigma < 0 THEN (IF S >= K THEN 3 ELSE 6)
  ELSE IF S >= K THEN 6 ELSE 3

GreekTheta(S, K, sigma) ==
  IF IsNaN(sigma) \/ IsNaN(S) THEN NaN
  ELSE IF sigma = 0 THEN 0
  ELSE IF sigma < 0 THEN 1
  ELSE -1

ValidT(row) == ~IsNaN(row.T) /\ row.T > 0

compute_greeks(df, S, sigma) ==
  IF df = <<>> THEN df
  ELSE LET kept == SelectSeq(df, ValidT)
       IN [i \in 1..Len(kept) |->
            LET row == kept[i]
            IN [contractSymbol    |-> row.contractSymbol,
                strike            |-> row.strike,
                type              |-> row.type,
                expiration        |-> row.expiration,
                lastPrice         |-> row.lastPrice,
                impliedVolatility |-> row.impliedVolatility,
                openInterest      |-> row.openInterest,
                T                 |-> row.T,
                theoretical_price |-> row.theoretical_price,
                mispricing        |-> row.mispricing,
                delta             |-> GreekDelta(S, row.strike, GreeksSigma(sigma, df)),
                theta             |-> GreekTheta(S, row.strike, GreeksSigma(sigma, df))]]

\* ----------------------------------------------------------------- report.py
\* config.json "filters": delta in tenths, the others in the model's units
filters == [min_delta |-> 3, max_theta |-> 0, min_iv |-> 2, min_open_interest |-> 1]

HasCols(row, cols) == cols \subseteq DOMAIN row
Ge(a, b) == ~IsNaN(a) /\ ~IsNaN(b) /\ a >= b
Le(a, b) == ~IsNaN(a) /\ ~IsNaN(b) /\ a <= b
Abs(x)   == IF IsNaN(x) THEN NaN ELSE IF x < 0 THEN -x ELSE x
B2I(b)   == IF b THEN 1 ELSE 0

\* the columns generate_report copies from the latest indicator row
IndicatorCols == {"RSI", "UpperBB", "LowerBB", "Close"}

\* variant: an indicator column the table lacks is filled with an undefined value
WithLatest_Defaults(row, latest) ==
  [c \in IndicatorCols |-> IF c \in DOMAIN latest THEN latest[c] ELSE NaN] @@ row

\* df["RSI"] = latest["RSI"].item() ...: each copied column overrides the row's
WithLatest(row, latest) ==
  [c \in (DOMAIN latest \cap IndicatorCols) |-> latest[c]] @@ row

\* variant: the close compared with the upper band
BelowLower_UpperBand(latest, tf) ==
  latest.Close # NaN /\ latest.UpperBB # NaN
  /\ latest.Close * 10 <= latest.UpperBB * (10 + tf.bb_tolerance)

\* Close <= LowerBB * (1 + tol), tol in tenths
BelowLower(latest, tf) ==
  ~IsNaN(latest.Close) /\ ~IsNaN(latest.LowerBB)
  /\ latest.Close * 10 <= latest.LowerBB * (10 + tf.bb_tolerance)
AboveUpper(latest, tf) ==
  ~IsNaN(latest.Close) /\ ~IsNaN(latest.UpperBB)
  /\ latest.Close * 10 >= latest.UpperBB * (10 - tf.bb_tolerance)

OptionCols == {"delta", "theta", "impliedVolatility", "openInterest"}

\* variant: the theta threshold left out of the mask
PassesOptionFilters_NoTheta(row, f) ==
  /\ row.delta # NaN /\ row.theta # NaN
  /\ row.impliedVolatility # NaN /\ row.openInterest # NaN
  /\ (row.delta >= f.min_delta \/ -row.delta >= f.min_delta)
  /\ row.impliedVolatility >= f.min_iv
  /\ row.openInterest >= f.min_open_interest

PassesOptionFilters(row, f) ==
  /\ ~IsNaN(row.delta) /\ ~IsNaN(row.theta)
  /\ ~IsNaN(row.impliedVolatility) /\ ~IsNaN(row.openInterest)
  /\ Ge(Abs(row.delta), f.min_delta)
  /\ Le(row.theta, f.max_theta)
  /\ Ge(row.impliedVolatility, f.min_iv)
  /\ Ge(row.openInterest, f.min_open_interest)

\* variant: the delta compared without its absolute value
RowScore_SignedDelta(row, f, tf) ==
    (IF "delta" \in DOMAIN row THEN B2I(Ge(row.delta, f.min_delta)) ELSE 0)
  + (IF "theta" \in DOMAIN row THEN B2I(Le(row.theta, f.max_theta)) ELSE 0)
  + (IF "impliedVolatility" \in DOMAIN row
       THEN B2I(Ge(row.impliedVolatility, f.min_iv)) ELSE 0)
  + (IF "openInterest" \in DOMAIN row
       THEN B2I(Ge(row.openInterest, f.min_open_interest)) ELSE 0)
  + (IF HasCols(row, {"Close", "LowerBB"}) /\ tf.bb_break_lower
       THEN B2I(BelowLower(row, tf)) ELSE 0)

\* variant: a theta within its threshold lowers the score
RowScore_ThetaPenalty(row, f, tf) ==
    (IF "delta" \in DOMAIN row THEN B2I(Ge(Abs(row.delta), f.min_delta)) ELSE 0)
  + (IF "impliedVolatility" \in DOMAIN row
       THEN B2I(Ge(row.impliedVolatility, f.min_iv)) ELSE 0)
  + (IF "openInterest" \in DOMAIN row
       THEN B2I(Ge(row.openInterest, f.min_open_interest)) ELSE 0)
  + (IF "theta" \in DOMAIN row THEN 1 - B2I(Le(row.theta, f.max_theta)) ELSE 0)

RowScore(row, f, tf) ==
    (IF "delta" \in DOMAIN row THEN B2I(Ge(Abs(row.delta), f.min_delta)) ELSE 0)
  + (IF "theta" \in DOMAIN row THEN B2I(Le(row.theta, f.max_theta)) ELSE 0)
  + (IF "impliedVolatility" \in DOMAIN row
       THEN B2I(Ge(row.impliedVolatility, f.min_iv)) ELSE 0)
  + (IF "openInterest" \in DOMAIN row
       THEN B2I(Ge(row.openInterest, f.min_open_interest)) ELSE 0)
  + (IF HasCols(row, {"Close", "LowerBB"}) /\ tf.bb_break_lower
       THEN B2I(BelowLower(row, tf)) ELSE 0)

\* the output columns, in the order of the list of lines 106-111
ReportColumns ==
  {"ticker", "contractSymbol", "strike", "type", "expiration", "lastPrice",
   "theoretical_price", "mispricing", "impliedVolatility", "delta", "theta",
   "vega", "openInterest", "volume", "daysToExpiry", "expiryBucket", "RSI",
   "UpperBB", "LowerBB", "Close", "score"}

SelectColumns(row) == [c \in (DOMAIN row \cap ReportColumns) |-> row[c]]

generate_report(df, indicators, f, tf) ==
  IF df = <<>> \/ indicators = <<>> THEN <<>>
  ELSE
    LET latest == indicators[Len(indicators)]
        joined == [i \in 1..Len(df) |-> WithLatest(df[i], latest)]
        KeepLower(row) == \/ ~tf.bb_break_lower
                          \/ ~HasCols(row, {"Close", "LowerBB"})
                          \/ BelowLower(row, tf)
        KeepUpper(row) == \/ ~tf.bb_break_upper
                          \/ ~HasCols(row, {"Close", "UpperBB"})
                          \/ AboveUpper(row, tf)
        KeepOpt(row)   == ~HasCols(row, OptionCols) \/ PassesOptionFilters(row, f)
        kept == SelectSeq(SelectSeq(SelectSeq(joined, KeepLower), KeepUpper), KeepOpt)
    IN [i \in 1..Len(kept) |->
          SelectColumns(kept[i] @@ [score |-> RowScore(kept[i], f, tf)])]

\* report.sort_values(["score", "mispricing"], ascending=[False, False]).iloc[0]
\* NaN mispricing sorts last within its score; the sort is stable.
Before(a, b) ==
  \/ a.score > b.score
  \/ /\ a.score = b.score
     /\ ~IsNaN(a.mispricing)
     /\ (IsNaN(b.mispricing) \/ a.mispricing > b.mispricing)

\* variant: iloc[0] of the unsorted report
TopIndex_First(report) == 1

TopIndex(report) ==
  CHOOSE i \in 1..Len(report) :
    /\ \A j \in 1..Len(report) : ~Before(report[j], report[i])
    /\ \A j \in 1..(i - 1) : Before(report[j], report[i]) \/ Before(report[i], report[j])

TopRow(report) == report[TopIndex(report)]

\* ------------------------------------------------------------- backtest.py
\* len(stock_hist.loc[:d].tail(lookback))
\* variant: the window is cut from the whole history, not from the bars up to d
HistLen_All(d) == Min(LOOKBACK, stock_hist.pre + Cardinality(stock_hist.dates))

HistLen(d) ==
  Min(LOOKBACK, stock_hist.pre + Cardinality({x \in stock_hist.dates : x <= d}))

\* hist_slice["Close"].iloc[-1]: the close of the latest bar up to day d
LastClose(d) == 1 + (d % 2)

\* hist_slice["Close"].pct_change().rolling(20).std().iloc[-1] * 252**0.5:
\* undefined below 21 closes or with a missing close, 0 on a flat window
VolOutcomes(n) == IF n < VOL_WINDOW + 1 THEN {NaN} ELSE {NaN, 0, 2000000}

\* the latest row of compute_indicators(hist_slice), as generate_report reads it
LatestRows(close) ==
  { [Close |-> close, LowerBB |-> lo, UpperBB |-> 4] :
      lo \in (IF tech_filters.bb_break_lower THEN {NaN, 1, 3} ELSE {1}) }

\* the RSI / EMA_Signal of the indicator row of day d: RSI is undefined until
\* its window fills; odd days may touch the overbought level, even days may
\* show the bearish crossover
IndRowSet(d) ==
  IF d % 2 = 1
    THEN { [RSI |-> 70, EMA_Signal |-> 1], [RSI |-> NaN, EMA_Signal |-> 1] }
    ELSE { [RSI |-> 69, EMA_Signal |-> 0], [RSI |-> 69,  EMA_Signal |-> 1] }
NoRow == [RSI |-> NaN, EMA_Signal |-> NaN]

\* compute_indicators is a function of the fixed history: a date's row is the
\* same each time it is recomputed
IndOutcomes(d) ==
  IF d \notin stock_hist.dates THEN {NoRow}
  ELSE IF indicatorRows[d] = NoRow THEN IndRowSet(d)
  ELSE {indicatorRows[d]}

\* fetch_data.get_historic_option_price: the last trade of the contract on the
\* date (results[0]["p"]), NaN when there is none or the request fails.  The
\* provider has no trade of a date after the wall-clock day, and the symbol
\* pattern of line 188 ("O:" prefix) matches no contract symbol of a schwab chain.
HistoricTrade(contractSymbol, d) == 1 + ((d + contractSymbol[2]) % 3)
PriceOutcomes(contractSymbol, d) ==
  IF d > today \/ data_source = "schwab" THEN {NaN}
  ELSE {NaN, HistoricTrade(contractSymbol, d)}

\* variant: the RSI condition alone
should_exit_RsiOnly(current_date, stock_indicators, tf) ==
  IF current_date \notin stock_hist.dates THEN FALSE
  ELSE Ge(stock_indicators.RSI, tf.rsi_overbought)

\* lines 20-41
should_exit(current_date, stock_indicators, tf) ==
  IF current_date \notin stock_hist.dates THEN FALSE          \* KeyError
  ELSE IF Ge(stock_indicators.RSI, tf.rsi_overbought) THEN TRUE
  ELSE stock_indicators.EMA_Signal = 0

\* lines 77-91: the report of one simulated day
DayReport(chain, last_close, iv_hist, latest) ==
  generate_report(
    compute_greeks(
      calculate_theoretical_prices(chain, last_close, iv_hist, today),
      last_close, iv_hist),
    <<latest>>, filters, tech_filters)

\* variant: an undefined price counted as no gain
PnL_ZeroFill(entryPx, exitPx) ==
  IF ~IsNaN(exitPx) /\ ~IsNaN(entryPx) THEN (exitPx - entryPx) * CONTRACT_MULT ELSE 0

\* variant: the per-share difference, without the contract multiplier
PnL_PerShare(entryPx, exitPx) ==
  IF ~IsNaN(exitPx) /\ ~IsNaN(entryPx) THEN exitPx - entryPx ELSE NaN

\* line 145
PnL(entryPx, exitPx) ==
  IF ~IsNaN(exitPx) /\ ~IsNaN(entryPx) THEN (exitPx - entryPx) * CONTRACT_MULT ELSE NaN

Trade(row, eDate, xDate, entryPx, exitPx) ==
  [entry_date  |-> eDate,
   exit_date   |-> xDate,
   contract    |-> row.contractSymbol,
   strike      |-> row.strike,
   entry_price |-> entryPx,
   exit_price  |-> exitPx,
   pnl         |-> PnL(entryPx, exitPx),
   score       |-> row.score,
   days_held   |-> xDate - eDate]

\* variant: a step of two days
NextDay_Skip(d) == d + 2

\* timedelta(days=1)
NextDay(d) == d + 1

\* variants: the later of the two dates; the expiration whatever the end date
SettleDate_Later(expDate, lastDate) == Max(expDate, lastDate)
SettleDate_Expiry(expDate, lastDate) == expDate

\* line 136: min(exp_date, last)
SettleDate(expDate, lastDate) == Min(expDate, lastDate)

\* variant: the search resumes after the exit
ResumeAfterExit(eDate, xDate) == NextDay(xDate)

\* variant: the search resumes on the entry day itself
ResumeOnEntryDay(eDate, xDate) == eDate

\* line 160: current = entry_date + timedelta(days=1)
ResumeDay(eDate, xDate) == NextDay(eDate)

\* the fields of the entry row that the rest of the iteration reads
EntryOf(row) ==
  [contractSymbol |-> row.contractSymbol, strike |-> row.strike,
   expiration |-> row.expiration, mispricing |-> row.mispricing,
   score |-> row.score]

Seeking == mode = "backtest" /\ pc = "seek" /\ current <= last
holdVars == <<entry, entry_date, entry_price, exp_date, exit_date, exit_price,
              temp_exit_date, found_exit_signal>>
runArgs  == <<mode, today, start, last, stock_hist, tech_filters, listing>>

\* lines 72-75
BT_ShortWindow ==
  /\ Seeking
  /\ HistLen(current) < LOOKBACK
  /\ current' = NextDay(current)
  /\ UNCHANGED <<runArgs, pc, results, holdVars, chain_fetches, indicatorRows, mainVars, calcVars>>

\* line 82: the provider call raises (schwab_client raise_for_status, no handler)
BT_ChainRaises ==
  /\ Seeking
  /\ HistLen(current) >= LOOKBACK
  /\ data_source = "schwab"
  /\ pc' = "raised"
  /\ chain_fetches' = chain_fetches \cup {current}
  /\ UNCHANGED <<runArgs, current, results, holdVars, indicatorRows, mainVars, calcVars>>

\* lines 82-85
BT_ChainEmpty ==
  /\ Seeking
  /\ HistLen(current) >= LOOKBACK
  /\ current' = NextDay(current)
  /\ chain_fetches' = chain_fetches \cup {current}
  /\ UNCHANGED <<runArgs, pc, results, holdVars, indicatorRows, mainVars, calcVars>>

\* lines 87-94
BT_ReportEmpty ==
  /\ Seeking
  /\ HistLen(current) >= LOOKBACK
  /\ \E vol \in VolOutcomes(HistLen(current)) :
       \E latest \in LatestRows(LastClose(current)) :
         DayReport(listing, LastClose(current), vol, latest) = <<>>
  /\ current' = NextDay(current)
  /\ chain_fetches' = chain_fetches \cup {current}
  /\ UNCHANGED <<runArgs, pc, results, holdVars, indicatorRows, mainVars, calcVars>>

\* lines 96-105
BT_EntryPriceNaN ==
  /\ Seeking
  /\ HistLen(current) >= LOOKBACK
  /\ \E vol \in VolOutcomes(HistLen(current)) :
       \E latest \in LatestRows(LastClose(current)) :
         LET report == DayReport(listing, LastClose(current), vol, latest)
         IN /\ report # <<>>
            /\ \E px \in PriceOutcomes(TopRow(report).contractSymbol, current) :
                 /\ IsNaN(px)
                 /\ entry' = EntryOf(TopRow(report))
                 /\ entry_price' = px
  /\ entry_date' = current
  /\ current' = NextDay(current)
  /\ chain_fetches' = chain_fetches \cup {current}
  /\ UNCHANGED <<runArgs, pc, results, exp_date, exit_date, exit_price, temp_exit_date,
                 found_exit_signal, indicatorRows, mainVars, calcVars>>

\* lines 96-117
BT_Enter ==
  /\ Seeking
  /\ HistLen(current) >= LOOKBACK
  /\ \E vol \in VolOutcomes(HistLen(current)) :
       \E latest \in LatestRows(LastClose(current)) :
         LET report == DayReport(listing, LastClose(current), vol, latest)
         IN /\ report # <<>>
            /\ \E px \in PriceOutcomes(TopRow(report).contractSymbol, current) :
                 /\ ~IsNaN(px)
                 /\ entry' = EntryOf(TopRow(report))
                 /\ entry_price' = px
                 /\ exit_price' = px
                 /\ exp_date' = TopRow(report).expiration
  /\ entry_date' = current
  /\ exit_date' = current
  /\ temp_exit_date' = current
  /\ found_exit_signal' = FALSE
  /\ pc' = "hold"
  /\ chain_fetches' = chain_fetches \cup {current}
  /\ UNCHANGED <<runArgs, current, results, indicatorRows, mainVars, calcVars>>

\* lines 118-133: one pass of the exit loop
BT_ExitWalk ==
  /\ mode = "backtest" /\ pc = "hold"
  /\ temp_exit_date < exp_date
  /\ temp_exit_date' = NextDay(temp_exit_date)
  /\ IF temp_exit_date' > last
       THEN /\ pc' = "settle"
            /\ UNCHANGED <<exit_date, exit_price, found_exit_signal, indicatorRows>>
     ELSE IF HistLen(temp_exit_date') < LOOKBACK
       THEN UNCHANGED <<pc, exit_date, exit_price, found_exit_signal, indicatorRows>>
     ELSE \E inds2 \in IndOutcomes(temp_exit_date') :
            /\ indicatorRows' = [indicatorRows EXCEPT ![temp_exit_date'] = inds2]
            /\ IF should_exit(temp_exit_date', inds2, tech_filters)
                 THEN /\ exit_date' = temp_exit_date'
                      /\ exit_price' \in PriceOutcomes(entry.contractSymbol, temp_exit_date')
                      /\ found_exit_signal' = TRUE
                      /\ pc' = "settle"
                 ELSE UNCHANGED <<pc, exit_date, exit_price, found_exit_signal>>
  /\ UNCHANGED <<runArgs, current, results, entry, entry_date, entry_price, exp_date,
                 chain_fetches, mainVars, calcVars>>

\* lines 135-160: close the position, record the trade, resume the day loop
BT_Settle ==
  /\ mode = "backtest"
  /\ \/ pc = "settle"
     \/ pc = "hold" /\ ~(temp_exit_date < exp_date)
  /\ IF ~found_exit_signal /\ exit_date = entry_date
       THEN /\ exit_date' = SettleDate(exp_date, last)
            /\ exit_price' \in PriceOutcomes(entry.contractSymbol, exit_date')
       ELSE UNCHANGED <<exit_date, exit_price>>
  /\ results' = Append(results, Trade(entry, entry_date, exit_date', entry_price, exit_price'))
  /\ current' = ResumeDay(entry_date, exit_date')
  /\ pc' = "seek"
  /\ UNCHANGED <<runArgs, entry, entry_date, entry_price, exp_date, temp_exit_date,
                 found_exit_signal, chain_fetches, indicatorRows, mainVars, calcVars>>

\* line 70 false, line 162
BT_Return ==
  /\ mode = "backtest" /\ pc = "seek"
  /\ current > last
  /\ pc' = "done"
  /\ UNCHANGED <<runArgs, current, results, holdVars, chain_fetches, indicatorRows,
                 mainVars, calcVars>>

\* ------------------------------------------------------------------ main.py
\* def compute_greeks(df, S, r=0.03, sigma=None)
ComputeGreeksParams == {"df", "S", "r", "sigma"}
\* compute_greeks(option_chain, last_close, config=config, sigma=sigma_val)
MainGreeksKeywords  == {"config", "sigma"}
\* def calculate_theoretical_prices(df, stock_close, config=None, hist_vol=None)
PricingParams       == {"df", "stock_close", "config", "hist_vol"}
\* calculate_theoretical_prices(option_chain, last_close, config=config, hist_vol=sigma_val)
MainPricingKeywords == {"config", "hist_vol"}

\* a keyword the callee does not declare raises TypeError at the call
RaisesTypeError(keywords, params) == ~(keywords \subseteq params)

ScanLoop == mode = "scan" /\ mainPc = "loop" /\ symbolIdx < MaxSymbols

\* one symbol skipped with a logged warning and `continue`
SkipSymbol(why) ==
  /\ mainLog' = Append(mainLog, why)
  /\ symbolIdx' = symbolIdx + 1
  /\ UNCHANGED <<mode, btVars, calcVars, mainPc, data_source, all_results>>

\* the exception leaves main(): nothing in the loop body catches it
RaiseOutOfMain ==
  /\ mainPc' = "raised"
  /\ UNCHANGED <<mode, btVars, calcVars, data_source, symbolIdx, all_results, mainLog>>

\* lines 68-71: no stock data
Main_NoStock == ScanLoop /\ SkipSymbol("no_stock")

\* line 68: get_stock_data, schwab branch: get_price_history raises HTTPError
Main_StockRaises == ScanLoop /\ data_source = "schwab" /\ RaiseOutOfMain

\* lines 74-76
Main_ShortHistory == ScanLoop /\ SkipSymbol("short_history")

\* lines 82-94
Main_NaNVol == ScanLoop /\ SkipSymbol("nan_vol")

\* lines 132-139
Main_NoChain == ScanLoop /\ SkipSymbol("no_chain")

\* line 132: get_option_chain, schwab branch: raise_for_status raises HTTPError
Main_ChainRaises == ScanLoop /\ data_source = "schwab" /\ RaiseOutOfMain

\* lines 143-176: pricing, Greeks, report
Main_Pipeline ==
  /\ ScanLoop
  /\ IF \/ RaisesTypeError(MainPricingKeywords, PricingParams)
        \/ RaisesTypeError(MainGreeksKeywords, ComputeGreeksParams)
       THEN RaiseOutOfMain
       ELSE \E rows \in 0..MaxChain :
              /\ all_results' = IF rows > 0 THEN Append(all_results, rows)
                                ELSE all_results
              /\ mainLog' = Append(mainLog, "reported")
              /\ symbolIdx' = symbolIdx + 1
              /\ UNCHANGED <<mode, btVars, calcVars, mainPc, data_source>>

\* lines 178-202
Main_Finish ==
  /\ mode = "scan" /\ mainPc = "loop"
  /\ symbolIdx = MaxSymbols
  /\ mainPc' = "done"
  /\ UNCHANGED <<mode, btVars, calcVars, data_source, symbolIdx, all_results, mainLog>>

\* ---------------------------------------------------------- initial states
TechFilterSets ==
  { [bb_break_lower |-> b, bb_break_upper |-> FALSE, bb_tolerance |-> 0,
     rsi_overbought |-> RSI_OVERBOUGHT] : b \in {TRUE} }

\* get_stock_data returns bars up to the wall-clock day only
Histories(t) ==
  LET upTo == {d \in Days : d <= t}
  IN { [pre |-> LOOKBACK,     dates |-> upTo],
       [pre |-> LOOKBACK,     dates |-> upTo \ {1}],
       [pre |-> LOOKBACK - 1, dates |-> upTo \ {0}] }

NoEntry == [contractSymbol |-> <<0, 0>>]

MainIdle ==
  /\ mainPc = "done"
  /\ symbolIdx = 0 /\ all_results = <<>> /\ mainLog = <<>>

NoCall == [fn |-> "none"]
NoValue == [pending |-> TRUE]

AuthIdle ==
  authPc = "idle" /\ auth_code = None /\ httpd = "none" /\ responses = <<>>

StreamIdle ==
  /\ streamPc = "idle" /\ ws = [connected |-> FALSE]
  /\ received = <<>> /\ delivered = <<>> /\ handler = "none"

CalcIdle ==
  calcPc = "idle" /\ call = NoCall /\ ret = NoValue /\ AuthIdle /\ StreamIdle

BacktestIdle ==
  /\ today = 0 /\ start = 0 /\ last = 0 /\ current = 0
  /\ stock_hist = [pre |-> 0, dates |-> {}]
  /\ tech_filters = [bb_break_lower |-> FALSE, bb_break_upper |-> FALSE,
                     bb_tolerance |-> 0, rsi_overbought |-> RSI_OVERBOUGHT]
  /\ listing = <<>>
  /\ chain_fetches = {}
  /\ results = <<>>
  /\ pc = "done"
  /\ entry = NoEntry
  /\ entry_date = -1 /\ exp_date = -1 /\ exit_date = -1 /\ temp_exit_date = -1
  /\ entry_price = NaN /\ exit_price = NaN
  /\ found_exit_signal = FALSE
  /\ indicatorRows = [d \in Days |-> NoRow]

InitScan ==
  /\ mode = "scan"
  /\ mainPc = "loop"
  /\ data_source \in {"polygon", "schwab"}
  /\ symbolIdx = 0
  /\ all_results = <<>>
  /\ mainLog = <<>>
  /\ BacktestIdle
  /\ CalcIdle

InitBacktest ==
  /\ mode = "backtest"
  /\ data_source \in {"polygon", "schwab"}
  /\ today \in Days
  /\ stock_hist \in Histories(today)
  /\ start = 0
  /\ last = MaxDay
  /\ current = start
  /\ tech_filters \in TechFilterSets
  /\ listing \in Listings
  /\ chain_fetches = {}
  /\ results = <<>>
  /\ pc = "seek"
  /\ entry = NoEntry
  /\ entry_date = -1 /\ exp_date = -1 /\ exit_date = -1 /\ temp_exit_date = -1
  /\ entry_price = NaN /\ exit_price = NaN
  /\ found_exit_signal = FALSE
  /\ indicatorRows = [d \in Days |-> NoRow]
  /\ MainIdle
  /\ CalcIdle

Init == InitBacktest \/ InitScan

BacktestNext ==
  \/ BT_ShortWindow
  \/ BT_ChainRaises
  \/ BT_ChainEmpty
  \/ BT_ReportEmpty
  \/ BT_EntryPriceNaN
  \/ BT_Enter
  \/ BT_ExitWalk
  \/ BT_Settle
  \/ BT_Return

ScanNext ==
  \/ Main_NoStock
  \/ Main_StockRaises
  \/ Main_ShortHistory
  \/ Main_NaNVol
  \/ Main_NoChain
  \/ Main_ChainRaises
  \/ Main_Pipeline
  \/ Main_Finish

Next == BacktestNext \/ ScanNext

Spec == Init /\ [][Next]_vars

\* Neither loop waits on anything: a run that is not finished takes its next step
FairSpec == Spec /\ WF_vars(Next)

\* ------------------------------------------------------ financial_utils.py
\* calculate_historical_volatility(close_prices_series, window): the argument
\* is a pandas Series of closes (NaN marks a missing close), a DataFrame with
\* a Close column, as tests/test_calculations.py passes it, or None.
Series(closes)    == [kind |-> "Series", Close |-> closes]
DataFrame(closes) == [kind |-> "DataFrame", Close |-> closes]
NoneInput         == [kind |-> "None", Close |-> <<>>]

SQRT_252 == 158745079      \* np.sqrt(trading_days_per_year), in 1/ONE

\* line 17: isinstance(close_prices_series, pd.Series)
IsSeries(input) == input.kind = "Series"

\* line 21
dropna(s) == SelectSeq(s, LAMBDA x : ~IsNaN(x))

\* line 29: np.log(cleaned / cleaned.shift(1)), in 1/ONE; the leading NaN of
\* the shift is left out
log_returns(c) == [i \in 1..(Len(c) - 1) |-> Ln(Div(c[i + 1], c[i]))]

\* line 35: the window rolling(window) ends on at the last return
LastWindow(r, window) == SubSeq(r, Len(r) - window + 1, Len(r))

\* (x - m)^2 / n, in units of 1e-12
SqDev(x, m, n) == (((x - m) \div 10) * ((x - m) \div 10)) \div n

RECURSIVE SumSqDev(_, _, _, _)
SumSqDev(s, i, m, n) ==
  IF i > Len(s) THEN 0 ELSE SqDev(s[i], m, n) + SumSqDev(s, i + 1, m, n)

\* the sample standard deviation (ddof = 1) of w about its mean m, in 1/ONE
StdAbout(w, m) == ISqrt(SumSqDev(w, 1, m, Len(w) - 1)) * 10

\* line 35: Series.std() of one window; undefined for a window of one value
Std(w) == IF Len(w) < 2 THEN NaN ELSE StdAbout(w, RoundDiv(SumFrom(w, 1), Len(w)))

\* lines 43-48
Annualized(last_std) == IF IsNaN(last_std) THEN NaN ELSE Mul(last_std, SQRT_252)

\* line 24: len(cleaned_series) < window + 1 returns np.nan
HasEnough(c, window) == Len(c) >= window + 1

\* lines 24-48
VolatilityOf(c, window) ==
  IF ~HasEnough(c, window) THEN NaN
  ELSE Annualized(Std(LastWindow(log_returns(c), window)))

\* lines 7-48
calculate_historical_volatility(input, window) ==
  IF ~IsSeries(input) THEN NaN ELSE VolatilityOf(dropna(input.Close), window)

\* ------------------------------------------------------------ indicators.py
\* compute_indicators(df): the Close column is a sequence of whole-dollar
\* closes; moving averages, bands, EMAs and Fibonacci levels are in 1/MONEY
\* dollar, RSI in whole points (rounded down), distances in 1/ONE.
BB_WINDOW   == 20      \* rolling(window=20)
RSI_WINDOW  == 14      \* rolling(window=14)
EMA_FAST    == 12      \* ema_fast, macd_fast
EMA_SLOW    == 26      \* ema_slow, macd_slow
MACD_SIGNAL == 9       \* macd_signal

\* variant: a window counts as full from its first value on (min_periods = 1)
Full_MinOne(i, window) == i >= 1

\* rolling(window): the window that ends at row i holds `window` values
Full(i, window) == i >= window

Window(s, i, window) == SubSeq(s, Max(1, i - window + 1), i)

RECURSIVE SumOfSquares(_, _)
SumOfSquares(s, i) == IF i > Len(s) THEN 0 ELSE s[i] * s[i] + SumOfSquares(s, i + 1)

\* rolling(window).mean() at row i
RollingMean(c, i, window) ==
  IF ~Full(i, window) THEN NaN
  ELSE (SumFrom(Window(c, i, window), 1) * MONEY) \div Len(Window(c, i, window))

\* the sample standard deviation from the count, the sum and the sum of squares
StdFromSums(n, s1, s2) ==
  IF n < 2 THEN NaN ELSE ISqrt(((n * s2 - s1 * s1) * 10000) \div (n * (n - 1))) * 1000

\* rolling(window).std() at row i
RollingStd(c, i, window) ==
  IF ~Full(i, window) THEN NaN
  ELSE StdFromSums(Len(Window(c, i, window)), SumFrom(Window(c, i, window), 1),
                   SumOfSquares(Window(c, i, window), 1))

\* lines 64-65: NaN propagates through the sum
Band(ma, std, k) == IF IsNaN(ma) \/ IsNaN(std) THEN NaN ELSE ma + k * std

\* line 68: df["Close"].diff(); the first difference is undefined
diff(c) == [j \in 1..Len(c) |-> IF j = 1 THEN NaN ELSE c[j] - c[j - 1]]

RECURSIVE GainFrom(_, _)
GainFrom(d, j) == IF j > Len(d) THEN 0 ELSE Max(d[j], 0) + GainFrom(d, j + 1)

RECURSIVE LossFrom(_, _)
LossFrom(d, j) == IF j > Len(d) THEN 0 ELSE Max(-d[j], 0) + LossFrom(d, j + 1)

\* lines 71-72: 100 - 100 / (1 + gain / loss); 0/0 is NaN, gain/0 is infinite
\* and gives 100
RsiOf(gain, loss) ==
  IF gain = 0 /\ loss = 0 THEN NaN ELSE (100 * gain) \div (gain + loss)

\* lines 69-72: the rolling means are undefined while the window is not full
\* or holds the undefined first difference
RSI(d, i) ==
  IF ~Full(i, RSI_WINDOW) \/ (\E j \in 1..Len(Window(d, i, RSI_WINDOW)) :
                                  IsNaN(Window(d, i, RSI_WINDOW)[j]))
    THEN NaN
    ELSE RsiOf(GainFrom(Window(d, i, RSI_WINDOW), 1), LossFrom(Window(d, i, RSI_WINDOW), 1))

\* ewm(span, adjust=False): y[t] = y[t-1] + 2 / (span + 1) * (x[t] - y[t-1])
EmaStep(prev, x, span) == prev + RoundDiv(2 * (x - prev), span + 1)

EmaAppend(sofar, x, span) == Append(sofar, EmaStep(sofar[Len(sofar)], x, span))

\* ewm(span, adjust=False).mean() of the first i values of x: y[1] = x[1]
RECURSIVE EmaUpTo(_, _, _)
EmaUpTo(x, span, i) ==
  IF i = 0 THEN <<>>
  ELSE IF i = 1 THEN <<x[1]>>
  ELSE EmaAppend(EmaUpTo(x, span, i - 1), x[i], span)

Ema(x, span) == EmaUpTo(x, span, Len(x))

InMoney(c) == [j \in 1..Len(c) |-> c[j] * MONEY]

\* lines 4-10: (ema_fast > ema_slow).astype(int)
compute_ema_crossover(fast, slow) ==
  [j \in 1..Len(fast) |-> IF fast[j] > slow[j] THEN 1 ELSE 0]

\* lines 16-20
Macd(fast, slow) == [j \in 1..Len(fast) |-> fast[j] - slow[j]]
compute_macd_hist(macd, macd_sig) == [j \in 1..Len(macd) |-> macd[j] - macd_sig[j]]

RECURSIVE MinFrom(_, _)
MinFrom(c, j) == IF j = Len(c) THEN c[j] ELSE Min(c[j], MinFrom(c, j + 1))

RECURSIVE MaxFrom(_, _)
MaxFrom(c, j) == IF j = Len(c) THEN c[j] ELSE Max(c[j], MaxFrom(c, j + 1))

FibRatios == {236, 382, 500, 618, 786}

\* lines 37-47, window = len(df): the levels over the whole frame and the
\* distance of the row's close to each
FibLevel(lo, hi, ratio) == hi * MONEY - (hi - lo) * ratio * (MONEY \div 1000)
FibDist(close, level) ==
  IF level = 0 THEN NaN ELSE Div(Mag(close * MONEY - level), Mag(level))

compute_fibonacci(close, lo, hi) ==
  [ratio \in FibRatios |->
     [level |-> FibLevel(lo, hi, ratio), dist |-> FibDist(close, FibLevel(lo, hi, ratio))]]

\* one row of the table, from the closes, the differences, the EMAs and MACD
IndicatorRow(c, i, d, signal, macd, macd_sig, hist) ==
  [Close       |-> c[i],
   MA20        |-> RollingMean(c, i, BB_WINDOW),
   UpperBB     |-> Band(RollingMean(c, i, BB_WINDOW), RollingStd(c, i, BB_WINDOW), 2),
   LowerBB     |-> Band(RollingMean(c, i, BB_WINDOW), RollingStd(c, i, BB_WINDOW), -2),
   RSI         |-> RSI(d, i),
   EMA_Signal  |-> signal[i],
   MACD        |-> macd[i],
   MACD_Signal |-> macd_sig[i],
   MACD_Hist   |-> hist[i],
   fib         |-> compute_fibonacci(c[i], MinFrom(c, 1), MaxFrom(c, 1))]

IndicatorsFromMacd(c, signal, macd, macd_sig) ==
  [i \in 1..Len(c) |->
     IndicatorRow(c, i, diff(c), signal, macd, macd_sig, compute_macd_hist(macd, macd_sig))]

IndicatorsFromEma(c, fast, slow) ==
  IndicatorsFromMacd(c, compute_ema_crossover(fast, slow), Macd(fast, slow),
                     Ema(Macd(fast, slow), MACD_SIGNAL))

\* lines 50-86, with the default spans
compute_indicators(c) ==
  IndicatorsFromEma(c, Ema(InMoney(c), EMA_FAST), Ema(InMoney(c), EMA_SLOW))

\* --------------------------------------------------------- schwab_client.py
\* get_option_chain reads the JSON body of the /chains response.  A JSON
\* value is a dict (its key/value pairs in order), a list, a string or null.
JDict(items) == [t |-> "dict", items |-> items]
JList(items) == [t |-> "list", items |-> items]
JString      == [t |-> "str", items |-> <<>>]
JNull        == [t |-> "null", items |-> <<>>]
NotJson      == [t |-> "invalid", items |-> <<>>]    \* a body r.json() cannot decode

IsDict(v) == v.t = "dict"
IsList(v) == v.t = "list"
HasKey(d, key) == \E i \in 1..Len(d.items) : d.items[i][1] = key

\* dict.get(key): None when the key is absent
Get(d, key) ==
  IF HasKey(d, key)
    THEN d.items[CHOOSE i \in 1..Len(d.items) : d.items[i][1] = key][2]
    ELSE JNull

\* {**d, key: value}
Override(items, key, value) ==
  SelectSeq(items, LAMBDA kv : kv[1] # key) \o << <<key, value>> >>

\* float(strike_px) raises ValueError for a key that is not a number
IsNumeric(key) == key \in {"150.0", "140.0"}
Float(key) == IF key = "150.0" THEN 150 ELSE 140

\* the records collected so far, or the exception that ended the call
NoError == "none"
Outcome(raised, records) == [raised |-> raised, records |-> records]
Nothing == Outcome(NoError, <<>>)
Then(a, b) ==
  IF a.raised # NoError THEN a
  ELSE IF b.raised # NoError THEN b
  ELSE Outcome(NoError, a.records \o b.records)

\* lines 76-77
FromOption(item, exp, strike_px) ==
  IF ~IsDict(item) THEN Nothing
  ELSE IF ~IsNumeric(strike_px) THEN Outcome("ValueError", <<>>)
  ELSE Outcome(NoError, << Override(Override(item.items, "expirationDate", exp),
                                    "strikePrice", Float(strike_px)) >>)

\* line 75
RECURSIVE FromList(_, _, _, _)
FromList(opts, i, exp, strike_px) ==
  IF i > Len(opts) THEN Nothing
  ELSE Then(FromOption(opts[i], exp, strike_px), FromList(opts, i + 1, exp, strike_px))

\* line 74: a strike whose value is not a list adds nothing
FromOpts(opts, exp, strike_px) ==
  IF IsList(opts) THEN FromList(opts.items, 1, exp, strike_px) ELSE Nothing

\* line 71
RECURSIVE FromStrikeItems(_, _, _)
FromStrikeItems(strikes, i, exp) ==
  IF i > Len(strikes) THEN Nothing
  ELSE Then(FromOpts(strikes[i][2], exp, strikes[i][1]), FromStrikeItems(strikes, i + 1, exp))

\* lines 69-70
FromStrikes(strikes, exp) ==
  IF IsDict(strikes) THEN FromStrikeItems(strikes.items, 1, exp) ELSE Nothing

\* line 68
RECURSIVE FromExpItems(_, _)
FromExpItems(exps, i) ==
  IF i > Len(exps) THEN Nothing
  ELSE Then(FromStrikes(exps[i][2], exps[i][1]), FromExpItems(exps, i + 1))

\* lines 65-67
FromMap(exp_date_map) ==
  IF IsDict(exp_date_map) THEN FromExpItems(exp_date_map.items, 1) ELSE Nothing

\* Response.raise_for_status(): HTTPError for a 4xx or 5xx status
RaisesForStatus(status) == status >= 400 /\ status < 600

\* lines 56-92; the frame is the sequence of its rows
get_option_chain(response) ==
  IF RaisesForStatus(response.status) THEN Outcome("HTTPError", <<>>)
  ELSE IF response.body = NotJson THEN Outcome("JSONDecodeError", <<>>)
  ELSE IF ~IsDict(response.body) THEN Nothing
  ELSE Then(FromMap(Get(response.body, "callExpDateMap")),
            FromMap(Get(response.body, "putExpDateMap")))

\* ------------------------------------------------- one call of the library
\* The functions of report.py and pricing_models.py and the pricing steps of
\* one day (backtest.py 87-91) or one symbol (main.py 82-176), applied to
\* arguments drawn from small sets.
MaxRows == 2               \* rows of a frame handed to a call

Without(row, cols) == [c \in (DOMAIN row \ cols) |-> row[c]]

\* a chain row after pricing and Greeks (the columns of fetch_data.py 142-151
\* that the report reads, plus mispricing)
OptionRow(d, th, iv, oi) ==
  [contractSymbol |-> <<1, 1>>, strike |-> 1, type |-> "call", expiration |-> 1,
   lastPrice |-> 4, mispricing |-> 1,
   delta |-> d, theta |-> th, impliedVolatility |-> iv, openInterest |-> oi]

ReportRowSet ==
  { OptionRow(6, -1, 3, 5),      \* passes every option filter
    OptionRow(-4, -1, 3, 5),     \* a put's delta, passes
    OptionRow(NaN, -1, 3, 5),    \* delta undefined
    OptionRow(6, 1, 3, 5),       \* theta above max_theta
    OptionRow(2, -1, 1, 0) }     \* only theta passes

DroppedCols == { {}, {"delta"}, {"openInterest"} }

ReportFrames ==
  UNION { { [i \in 1..n |-> Without(rows[i], drop)] :
              rows \in [1..n -> ReportRowSet], drop \in DroppedCols } :
          n \in 0..MaxRows }

\* the last row of the indicator table: the stock closed at 3
CalcLatestRows ==
  { [Close |-> 3, LowerBB |-> lo, UpperBB |-> t[1], RSI |-> 50,
     EMA_Signal |-> t[2], MACD_Hist |-> t[3]] :
      lo \in {NaN, 2, 4}, t \in {<<3, 1, 1>>, <<5, 0, -1>>} }
  \cup { [Close |-> 3, UpperBB |-> 5, RSI |-> 50, EMA_Signal |-> 1, MACD_Hist |-> 1] }

EarlierRow ==
  [Close |-> 1, LowerBB |-> 4, UpperBB |-> 1, RSI |-> 50, EMA_Signal |-> 0,
   MACD_Hist |-> 0]

IndicatorTables == {<<>>} \cup { <<EarlierRow, latest>> : latest \in CalcLatestRows }

TechFilter(lower, upper, tol) ==
  [bb_break_lower |-> lower, bb_break_upper |-> upper, bb_tolerance |-> tol,
   rsi_overbought |-> RSI_OVERBOUGHT]

CalcTechFilters ==
  { TechFilter(FALSE, FALSE, 0), TechFilter(TRUE, FALSE, 0), TechFilter(FALSE, TRUE, 0),
    TechFilter(TRUE, FALSE, 5), TechFilter(TRUE, TRUE, 5) }

ReportCalls ==
  { [fn |-> "generate_report", df |-> df, indicators |-> ind, filters |-> filters,
     tech_filters |-> tf] :
      df \in ReportFrames, ind \in IndicatorTables, tf \in CalcTechFilters }

\* a provider row of the chain: a call, a put or a contract_type the pricing
\* does not know, expiring on the wall-clock day (1) or on the next day; one
\* row that expired the day before and one whose expiration does not parse
ChainRow(exp, k, kind) ==
  [contractSymbol |-> <<exp, k>>, strike |-> k, type |-> kind, expiration |-> exp,
   lastPrice |-> 4, impliedVolatility |-> 3, openInterest |-> 5]

ChainRowSet ==
  { ChainRow(exp, k, kind) : exp \in {1, 2}, k \in {1, 2}, kind \in {"call", "put", "other"} }
  \cup { ChainRow(0, 2, "put"), ChainRow(NaN, 1, "call") }

PipelineChains == UNION { [1..n -> ChainRowSet] : n \in 0..MaxRows }

\* the volatility estimate handed to the pricing and to the Greeks: the scan
\* computes an undefined value, 0 or a positive one; the two functions as
\* backtest.py 87-88 calls them are also given None and a negative value
VolEstimates(who) ==
  IF who = "scan" THEN {NaN, 0, 2000000} ELSE {None, NaN, -2000000, 0, 2000000}

PipelineCalls ==
  { [fn |-> "pipeline", caller |-> c[1], chain |-> chain, last_close |-> close,
     hist_vol |-> c[2], today |-> 1,
     latest |-> [Close |-> close, LowerBB |-> 3, UpperBB |-> 4, RSI |-> 50],
     tech_filters |-> TechFilter(TRUE, FALSE, 0)] :
      c \in UNION { { <<who, vol>> : vol \in VolEstimates(who) } :
                     who \in {"backtest", "scan"} },
      chain \in PipelineChains, close \in {1, 2} }

\* black_scholes(S, K, T, r, sigma, option_type): spot 85 to 110 against a
\* strike of 100; T undefined, negative, 0, 1e-9, 5e-7, ten days, a quarter
\* and one year; r 0 or 5%; sigma undefined, 0, 20% or 100%
BlackScholesCalls ==
  { [fn |-> "black_scholes", S |-> S, K |-> K, T |-> T, r |-> r, sigma |-> sigma,
     option_type |-> kind] :
      S \in {NaN, Dollars(-1), 0, Dollars(85), Dollars(90), Dollars(100), Dollars(110)},
      K \in {NaN, 0, Dollars(100)},
      T \in {NaN, -EPSILON_T, 0, 1, 500, 10 * DAY, 250000000, TIME},
      r \in {0, 500000},
      sigma \in {NaN, 0, 2000000, ONE},
      kind \in {"call", "put", "straddle"} }

\* calculate_historical_volatility(prices, window): up to MaxCloses closes of
\* 100, 101 or 102 dollars, any of them missing, as a Series or as the Close
\* column of a DataFrame, or None; windows of 2 and of 4 returns
MaxCloses == 5

CloseSeqs == UNION { [1..n -> {NaN, 100, 101, 102}] : n \in 0..MaxCloses }

VolatilityCalls ==
  { [fn |-> "calculate_historical_volatility", prices |-> prices, window |-> w] :
      prices \in { Series(c) : c \in CloseSeqs } \cup { DataFrame(c) : c \in CloseSeqs }
                   \cup { NoneInput },
      w \in {2, 4} }

\* compute_indicators(df): up to MaxBars daily bars whose closes are flat,
\* rise, fall, alternate, or fall and then recover
MaxBars == 22

BarPatterns == {"flat", "rising", "falling", "zigzag", "rebound"}

CloseOf(pattern, j) ==
  CASE pattern = "flat"    -> 100
    [] pattern = "rising"  -> 98 + (j \div 5)
    [] pattern = "falling" -> 103 - (j \div 5)
    [] pattern = "zigzag"  -> 100 + (j % 2)
    [] pattern = "rebound" -> IF j < 8 THEN 103 - (j \div 2) ELSE 100 + ((j - 8) \div 2)

Bars(pattern, n) == [j \in 1..n |-> CloseOf(pattern, j)]

IndicatorCalls ==
  { [fn |-> "compute_indicators", bars |-> Bars(pattern, n)] :
      pattern \in BarPatterns, n \in 0..MaxBars }

\* schwab_client.get_option_chain(symbol): the response to GET /chains.  Each
\* side of the chain is missing, a string, or a dict with at most one
\* expiration, whose value is a string or a dict with at most one strike, whose
\* value is a list of up to MaxOpts items, a dict of one option, or a string.
MaxOpts == 2

OptionObject(putCall, price) == JDict(<< <<"putCall", putCall>>, <<"last", price>> >>)

JItems == { OptionObject("CALL", 10), OptionObject("PUT", 5), JString }

OptsValues ==
  { JList(items) : items \in UNION { [1..n -> JItems] : n \in 0..MaxOpts } }
  \cup { JDict(<< <<"O:XYZ", OptionObject("CALL", 10)>> >>), JString }

StrikesValues ==
  { JDict(<<>>), JString }
  \cup { JDict(<< <<key, opts>> >>) : key \in {"150.0", "ATM"}, opts \in OptsValues }

SideValues ==
  { JNull, JString, JDict(<<>>) }
  \cup { JDict(<< <<"2025-01-17:23", strikes>> >>) : strikes \in StrikesValues }

Side(name, value) == IF value = JNull THEN <<>> ELSE << <<name, value>> >>

ChainBodies ==
  { NotJson, JList(<<>>) }
  \cup { JDict(Side("callExpDateMap", c) \o Side("putExpDateMap", p)) :
           c \in SideValues, p \in SideValues }

ChainCalls ==
  { [fn |-> "get_option_chain", response |-> [status |-> status, body |-> body]] :
      status \in {200, 304, 401, 500}, body \in ChainBodies }

InitCalc ==
  /\ mode = "calc"
  /\ data_source = "polygon"
  /\ BacktestIdle
  /\ MainIdle
  /\ calcPc = "call"
  /\ \/ call \in ReportCalls
     \/ call \in PipelineCalls
     \/ call \in BlackScholesCalls
     \/ call \in VolatilityCalls
     \/ call \in IndicatorCalls
     \/ call \in ChainCalls
  /\ ret = NoValue
  /\ AuthIdle
  /\ StreamIdle

CalcStep(to, value) ==
  /\ calcPc' = to
  /\ ret' = value
  /\ UNCHANGED <<mode, btVars, mainVars, call, authVars, streamVars>>

\* report.py 3-114
Calc_generate_report ==
  /\ mode = "calc" /\ calcPc = "call" /\ call.fn = "generate_report"
  /\ CalcStep("return",
       generate_report(call.df, call.indicators, call.filters, call.tech_filters))

\* pricing_models.py 12-37
Calc_black_scholes ==
  /\ mode = "calc" /\ calcPc = "call" /\ call.fn = "black_scholes"
  /\ CalcStep("return",
       black_scholes(call.S, call.K, call.T, call.r, call.sigma, call.option_type))

\* financial_utils.py 7-48
Calc_calculate_historical_volatility ==
  /\ mode = "calc" /\ calcPc = "call" /\ call.fn = "calculate_historical_volatility"
  /\ CalcStep("return", calculate_historical_volatility(call.prices, call.window))

\* indicators.py 50-86
Calc_compute_indicators ==
  /\ mode = "calc" /\ calcPc = "call" /\ call.fn = "compute_indicators"
  /\ CalcStep("return", compute_indicators(call.bars))

\* schwab_client.py 40-92
Calc_get_option_chain ==
  /\ mode = "calc" /\ calcPc = "call" /\ call.fn = "get_option_chain"
  /\ CalcStep("return", get_option_chain(call.response))

\* main.py 82-94: the scan skips the symbol whose volatility is undefined
Calc_VolCheck ==
  /\ mode = "calc" /\ calcPc = "call" /\ call.fn = "pipeline" /\ call.caller = "scan"
  /\ IF IsNaN(call.hist_vol)
       THEN CalcStep("skipped", NoValue)
       ELSE CalcStep("checked", NoValue)

\* backtest.py 87 / main.py 143-148
Calc_Price ==
  /\ mode = "calc" /\ call.fn = "pipeline"
  /\ \/ calcPc = "call" /\ call.caller = "backtest"
     \/ calcPc = "checked"
  /\ CalcStep("priced",
       calculate_theoretical_prices(call.chain, call.last_close, call.hist_vol,
                                    call.today))

\* backtest.py 88 / main.py 159 (the keyword `config` raises TypeError)
Calc_Greeks ==
  /\ mode = "calc" /\ calcPc = "priced"
  /\ IF call.caller = "scan" /\ RaisesTypeError(MainGreeksKeywords, ComputeGreeksParams)
       THEN CalcStep("raised", NoValue)
       ELSE CalcStep("greeks", compute_greeks(ret, call.last_close, call.hist_vol))

\* backtest.py 91-97: an empty report skips the day, otherwise the day enters
Calc_Report ==
  /\ mode = "calc" /\ calcPc = "greeks"
  /\ LET report == generate_report(ret, <<call.latest>>, filters, call.tech_filters)
     IN CalcStep(IF report = <<>> THEN "skipped" ELSE "entry", report)

CalcNext ==
  \/ Calc_generate_report
  \/ Calc_black_scholes
  \/ Calc_calculate_historical_volatility
  \/ Calc_compute_indicators
  \/ Calc_get_option_chain
  \/ Calc_VolCheck
  \/ Calc_Price
  \/ Calc_Greeks
  \/ Calc_Report

CalcSpec == InitCalc /\ [][CalcNext]_vars

\* ------------------------------------------------------------ auth_http.py
\* run_auth_flow: the main thread starts the callback server, opens the
\* browser and waits for the global auth_code; the server thread serves the
\* GET requests of the browser.
MaxRequests == 3      \* requests the browser sends to the local server

\* a query string is a sequence of <<key, value>>; the value 0 is the empty
\* string
Queries ==
  { <<>>, << <<"code", 1>> >>, << <<"code", 2>> >>, << <<"code", 0>> >>,
    << <<"error", 1>> >> }

Requests ==
  { [path |-> "/", query |-> <<>>], [path |-> "/favicon.ico", query |-> <<>>] }
  \cup { [path |-> "/callback", query |-> q] : q \in Queries }

\* urlparse.parse_qs(query): pairs with a blank value are left out
parse_qs(query) == SelectSeq(query, LAMBDA kv : kv[2] # 0)

\* line 47: params.get("code", [None])[0]
CodeOf(params) ==
  IF \E i \in 1..Len(params) : params[i][1] = "code"
    THEN params[CHOOSE i \in 1..Len(params) :
                  /\ params[i][1] = "code"
                  /\ \A j \in 1..(i - 1) : params[j][1] # "code"][2]
    ELSE None

\* variant: a callback without a code leaves auth_code as it was
NewAuthCode_KeepOnMissing(old, query) ==
  IF CodeOf(parse_qs(query)) = None THEN old ELSE CodeOf(parse_qs(query))

\* lines 46-47: auth_code is assigned whatever the query holds
NewAuthCode(old, query) == CodeOf(parse_qs(query))

Served(request, status) == [request |-> request, status |-> status]

AuthStep == UNCHANGED <<mode, btVars, mainVars, calcPc, call, ret, streamVars>>

\* lines 69-80: the server thread is started and the browser opened
Auth_Start ==
  /\ mode = "auth" /\ authPc = "start"
  /\ authPc' = "wait"
  /\ httpd' = "serving"
  /\ UNCHANGED <<auth_code, responses>>
  /\ AuthStep

\* lines 29-63, CallbackHandler.do_GET, for one request of the browser; the
\* server handles requests until its shutdown flag is seen
Auth_do_GET ==
  /\ mode = "auth" /\ httpd \in {"serving", "stopping"}
  /\ Len(responses) < MaxRequests
  /\ \E request \in Requests :
       IF request.path = "/"
         THEN /\ responses' = Append(responses, Served(request, 200))
              /\ UNCHANGED <<auth_code, httpd>>
       ELSE IF request.path = "/callback"
         THEN /\ auth_code' = NewAuthCode(auth_code, request.query)
              /\ responses' = Append(responses, Served(request, 200))
              /\ httpd' = "stopping"
       ELSE /\ responses' = Append(responses, Served(request, 404))
            /\ UNCHANGED <<auth_code, httpd>>
  /\ UNCHANGED authPc
  /\ AuthStep

\* line 58: the thread started by the handler runs self.server.shutdown()
Auth_Shutdown ==
  /\ mode = "auth" /\ httpd = "stopping"
  /\ httpd' = "stopped"
  /\ UNCHANGED <<authPc, auth_code, responses>>
  /\ AuthStep

\* lines 83-84: the wait loop is left once auth_code is not None
Auth_LeaveWait ==
  /\ mode = "auth" /\ authPc = "wait"
  /\ auth_code # None
  /\ authPc' = "exchange"
  /\ UNCHANGED <<auth_code, httpd, responses>>
  /\ AuthStep

\* lines 87-100: oauth.fetch_token returns the tokens or raises
Auth_FetchToken ==
  /\ mode = "auth" /\ authPc = "exchange"
  /\ authPc' \in {"done", "failed"}
  /\ UNCHANGED <<auth_code, httpd, responses>>
  /\ AuthStep

InitAuth ==
  /\ mode = "auth"
  /\ data_source = "polygon"
  /\ BacktestIdle
  /\ MainIdle
  /\ calcPc = "idle" /\ call = NoCall /\ ret = NoValue
  /\ authPc = "start" /\ auth_code = None /\ httpd = "none" /\ responses = <<>>
  /\ StreamIdle

AuthNext ==
  \/ Auth_Start
  \/ Auth_do_GET
  \/ Auth_Shutdown
  \/ Auth_LeaveWait
  \/ Auth_FetchToken

AuthSpec == InitAuth /\ [][AuthNext]_vars

\* each thread keeps running: the main thread polls every 0.1 s, the shutdown
\* thread runs once started; the browser owes the server no request
FairAuthSpec ==
  /\ AuthSpec
  /\ WF_vars(Auth_Start)
  /\ WF_vars(Auth_LeaveWait)
  /\ WF_vars(Auth_FetchToken)
  /\ WF_vars(Auth_Shutdown)

\* ------------------------------------------------------------- streamer.py
\* SchwabStreamer.run(on_message_callback), after __init__ has connected
MaxMessages == 3      \* messages the server sends before the stream ends

\* what ws.recv() returns: an empty frame, text that is not JSON, a JSON
\* string, or a JSON object with some of the keys response, data, notify
RawEmpty     == [kind |-> "empty", keys |-> {}, data |-> 0]
RawMalformed == [kind |-> "malformed", keys |-> {}, data |-> 0]
RawString    == [kind |-> "string", keys |-> {}, data |-> 0]
RawObject(keys, data) == [kind |-> "object", keys |-> keys, data |-> data]

RawMessages ==
  { RawEmpty, RawMalformed, RawString }
  \cup { RawObject(keys, IF "data" \in keys THEN 1 ELSE 0) :
           keys \in {{}, {"response"}, {"notify"}, {"data"}, {"response", "data"},
                     {"data", "notify"}} }
  \cup { RawObject({"data"}, 2) }

\* variant: the data key is looked at before the response key
Branch_DataFirst(message) ==
  IF "data" \in message.keys THEN "data"
  ELSE IF "response" \in message.keys THEN "response"
  ELSE IF "notify" \in message.keys THEN "notify"
  ELSE "unhandled"

\* lines 131-140: the branch taken for a decoded object
Branch(message) ==
  IF "response" \in message.keys THEN "response"
  ELSE IF "data" \in message.keys THEN "data"
  ELSE IF "notify" \in message.keys THEN "notify"
  ELSE "unhandled"

StreamStep == UNCHANGED <<mode, btVars, mainVars, calcPc, call, ret, authVars>>

\* lines 121-140: one pass of the loop for the message recv() returned.  An
\* empty message is skipped; text that is not JSON raises JSONDecodeError; a
\* JSON value that is no object either falls through to the last branch or
\* raises TypeError at the key tests or at message["data"]; the callback
\* returns or raises.  Every exception is caught by a handler of lines 142-150.
Stream_Receive ==
  /\ mode = "stream" /\ streamPc = "recv" /\ ws.connected
  /\ Len(received) < MaxMessages
  /\ \E raw \in RawMessages, raises \in BOOLEAN :
       /\ received' = Append(received, raw)
       /\ IF raw.kind = "empty"
            THEN ~raises /\ UNCHANGED <<streamPc, delivered, handler>>
          ELSE IF raw.kind = "malformed"
            THEN /\ ~raises
                 /\ streamPc' = "finally" /\ handler' = "JSONDecodeError"
                 /\ UNCHANGED delivered
          ELSE IF raw.kind = "string"
            THEN /\ streamPc' = IF raises THEN "finally" ELSE "recv"
                 /\ handler' = IF raises THEN "Exception" ELSE handler
                 /\ UNCHANGED delivered
          ELSE IF Branch(raw) = "data"
            THEN /\ delivered' = Append(delivered, raw.data)
                 /\ streamPc' = IF raises THEN "finally" ELSE "recv"
                 /\ handler' = IF raises THEN "Exception" ELSE handler
          ELSE ~raises /\ UNCHANGED <<streamPc, delivered, handler>>
  /\ UNCHANGED ws
  /\ StreamStep

\* lines 121, 142-144: recv() raises WebSocketConnectionClosedException; the
\* library may or may not have marked the socket as closed by then
Stream_ConnectionClosed ==
  /\ mode = "stream" /\ streamPc = "recv"
  /\ ws' \in {[connected |-> TRUE], [connected |-> FALSE]}
  /\ streamPc' = "finally"
  /\ handler' = "WebSocketConnectionClosedException"
  /\ UNCHANGED <<received, delivered>>
  /\ StreamStep

\* lines 147-148: KeyboardInterrupt while the loop waits
Stream_KeyboardInterrupt ==
  /\ mode = "stream" /\ streamPc = "recv"
  /\ streamPc' = "finally"
  /\ handler' = "KeyboardInterrupt"
  /\ UNCHANGED <<ws, received, delivered>>
  /\ StreamStep

\* lines 151-154: the websocket is closed if it is still connected
Stream_Finally ==
  /\ mode = "stream" /\ streamPc = "finally"
  /\ ws' = [connected |-> FALSE]
  /\ streamPc' = "returned"
  /\ UNCHANGED <<received, delivered, handler>>
  /\ StreamStep

InitStream ==
  /\ mode = "stream"
  /\ data_source = "polygon"
  /\ BacktestIdle
  /\ MainIdle
  /\ calcPc = "idle" /\ call = NoCall /\ ret = NoValue
  /\ AuthIdle
  /\ streamPc = "recv" /\ ws = [connected |-> TRUE]
  /\ received = <<>> /\ delivered = <<>> /\ handler = "none"

StreamNext ==
  \/ Stream_Receive
  \/ Stream_ConnectionClosed
  \/ Stream_KeyboardInterrupt
  \/ Stream_Finally

StreamSpec == InitStream /\ [][StreamNext]_vars

\* ===================================================================
\* Properties of backtest_single_leg and main
\* ===================================================================
Backtest == mode = "backtest"
Trades == 1..Len(results)
LastTrade == results[Len(results)]

\* the expiration date a contract symbol encodes
ExpirationOf(contract) == contract[1]

\* bars of the price history dated d or earlier
BarsUpTo(d) == stock_hist.pre + Cardinality({x \in stock_hist.dates : x <= d})

\* the indicator row recomputed for day d gives an exit signal
SignalOn(d) ==
  /\ d \in stock_hist.dates
  /\ \/ indicatorRows[d].RSI # NaN /\ indicatorRows[d].RSI >= tech_filters.rsi_overbought
     \/ indicatorRows[d].EMA_Signal = 0

\* the day loop is between two iterations (or has left the loop)
BetweenIterations == Backtest /\ pc \in {"seek", "done", "raised"}

\* the iteration that ended last recorded a trade; its locals are still in place
Recorded ==
  /\ BetweenIterations
  /\ results # <<>>
  /\ ~IsNaN(entry_price)
  /\ LastTrade.entry_date = entry_date

C2_AlwaysRecorded ==
  (BetweenIterations /\ entry_date >= start) =>
    \E i \in Trades :
      /\ results[i].entry_date = entry_date
      /\ (IsNaN(entry_price) \/ IsNaN(results[i].exit_price)) => IsNaN(results[i].pnl)

\* C2 (amended): an undefined exit price leaves the trade recorded with an
\* undefined PnL, never 0; an undefined entry price records no trade for that
\* day; no recorded trade has an undefined entry price.
C2_UndefinedPrices ==
  /\ Backtest =>
       \A i \in Trades :
         /\ ~IsNaN(results[i].entry_price)
         /\ IsNaN(results[i].exit_price) <=> IsNaN(results[i].pnl)
  /\ (BetweenIterations /\ entry_date >= start) =>
       IF IsNaN(entry_price)
         THEN \A i \in Trades : results[i].entry_date # entry_date
         ELSE /\ results # <<>>
              /\ LastTrade.entry_date = entry_date
              /\ LastTrade.exit_price = exit_price
              /\ IsNaN(exit_price) => IsNaN(LastTrade.pnl)

\* a trade recorded with an undefined exit price, then a day skipped on an
\* undefined entry price
C2_Witness ==
  /\ BetweenIterations
  /\ results # <<>>
  /\ IsNaN(LastTrade.exit_price) /\ IsNaN(LastTrade.pnl)
  /\ IsNaN(entry_price)
  /\ entry_date > LastTrade.entry_date

\* ------------------------------------------------------------------ C3
\* a measure of the work left: days to consider, then steps of the iteration
RankPerDay == MaxDay + 5
Rank ==
  (last + 1 - current) * RankPerDay
  + CASE pc = "seek"   -> MaxDay + 4
      [] pc = "hold"   -> 2 + Min(exp_date, last + 1) - temp_exit_date
      [] pc = "settle" -> 1
      [] OTHER         -> 0

C3_Step ==
  Backtest =>
    \* an iteration that ends without a position: one day forward
    /\ (pc = "seek" /\ pc' = "seek") => current' = current + 1
    \* a position is opened and walked: the day stays
    /\ (pc = "seek" /\ pc' = "hold") => current' = current /\ entry_date' = current
    /\ (pc \in {"hold", "settle"} /\ pc' \in {"hold", "settle"}) =>
         current' = current /\ entry_date' = entry_date
    \* an iteration that ends with a recorded trade: one day forward
    /\ (pc \in {"hold", "settle"} /\ pc' = "seek") =>
         /\ current' = current + 1
         /\ Len(results') = Len(results) + 1
    \* the loop is left once every day up to the end date was considered
    /\ pc' = "done" => current' = last + 1
    /\ current' <= last + 1
    \* every step uses up some of the measure
    /\ Rank' < Rank
    /\ Rank' >= 0

\* C3: every iteration of the day loop, whatever its outcome, moves the
\* current day forward by exactly one day; the loop is left after the end
\* date was considered, and every run comes to its end (an iteration whose
\* chain request raises ends the run at once, see C10).
C3_DayLoopProgress ==
  /\ [][C3_Step]_vars
  /\ Backtest ~> (pc \in {"done", "raised"})

\* a finished run whose first trade was entered after an earlier day was passed
C3_Witness ==
  /\ Backtest /\ pc = "done"
  /\ current = last + 1
  /\ results # <<>>
  /\ results[1].entry_date > start
  /\ BarsUpTo(start) >= LOOKBACK

\* ------------------------------------------------------------------ C4
\* C4: a held position exits on the first day after the entry date, up to
\* min(expiration, end), whose recomputed indicators give RSI >= rsi_overbought
\* or EMA signal 0, at the contract's historic price of that day, and examines
\* no later day.
C4_ExitOnFirstSignal ==
  (Backtest /\ (pc = "settle" \/ Recorded)) =>
    LET held == (entry_date + 1)..Min(exp_date, last)
    IN /\ found_exit_signal <=> \E d \in held : SignalOn(d)
       /\ \A d \in (entry_date + 1)..Min(temp_exit_date, last) :
            (d \in stock_hist.dates /\ BarsUpTo(d) >= LOOKBACK) => indicatorRows[d] # NoRow
       /\ found_exit_signal =>
            /\ exit_date \in held
            /\ SignalOn(exit_date)
            /\ \A d \in held : d < exit_date => ~SignalOn(d)
            /\ exit_price \in PriceOutcomes(entry.contractSymbol, exit_date)
            /\ temp_exit_date = exit_date
       /\ Recorded =>
            /\ LastTrade.exit_date = exit_date
            /\ LastTrade.exit_price = exit_price

\* a trade closed by a signal on the second day after its entry
C4_Witness ==
  /\ Recorded
  /\ found_exit_signal
  /\ LastTrade.exit_date = entry_date + 2
  /\ ~SignalOn(entry_date + 1)
  /\ indicatorRows[entry_date + 1] # NoRow

\* ------------------------------------------------------------------ C5
\* C5: a trade with no exit signal on any day after its entry up to
\* min(expiration, end) exits on min(expiration, end) at the contract's
\* historic price of that day.
C5_ExitAtExpiryOrEnd ==
  Backtest =>
    \A i \in Trades :
      LET t       == results[i]
          horizon == Min(ExpirationOf(t.contract), last)
      IN (\A d \in (t.entry_date + 1)..horizon : ~SignalOn(d)) =>
           /\ t.exit_date = horizon
           /\ t.exit_price \in PriceOutcomes(t.contract, horizon)

\* a trade walked over a bar day without a signal and closed at the horizon
C5_Witness ==
  /\ Recorded
  /\ ~found_exit_signal
  /\ LastTrade.exit_date = Min(exp_date, last)
  /\ LastTrade.exit_date > entry_date
  /\ \E d \in (entry_date + 1)..LastTrade.exit_date : indicatorRows[d] # NoRow

\* ------------------------------------------------------------------ C6
\* C6: a recorded trade with both prices defined has
\* pnl = (exit_price - entry_price) * 100, the prices being the contract's
\* historic prices of entry_date and exit_date.
C6_PnL ==
  Backtest =>
    \A i \in Trades :
      LET t == results[i]
      IN (~IsNaN(t.entry_price) /\ ~IsNaN(t.exit_price)) =>
           /\ t.pnl = (t.exit_price - t.entry_price) * 100
           /\ t.entry_price = HistoricTrade(t.contract, t.entry_date)
           /\ t.exit_price = HistoricTrade(t.contract, t.exit_date)

\* a trade with a gain or a loss
C6_Witness ==
  /\ Backtest
  /\ \E i \in Trades :
       /\ ~IsNaN(results[i].pnl)
       /\ results[i].pnl # 0
       /\ results[i].exit_price # results[i].entry_price

\* ------------------------------------------------------------------ C7
\* the reports the day d can produce
DayReports(d) ==
  { DayReport(listing, LastClose(d), vol, latest) :
      vol \in VolOutcomes(BarsUpTo(d)), latest \in LatestRows(LastClose(d)) }

Outranks(a, b) ==
  \/ a.score > b.score
  \/ /\ a.score = b.score
     /\ ~IsNaN(a.mispricing) /\ ~IsNaN(b.mispricing)
     /\ a.mispricing > b.mispricing

C7_Step ==
  (Backtest /\ pc = "seek" /\ entry_date' = current /\ entry_date # current) =>
    \E report \in DayReports(current) :
      /\ report # <<>>
      /\ \E i \in 1..Len(report) :
           /\ entry' = EntryOf(report[i])
           /\ \A j \in 1..Len(report) : ~Outranks(report[j], report[i])

\* C7: the contract selected on a day with a non-empty report is a row of
\* that day's report that no other row outranks by a higher score, or by an
\* equal score with a higher mispricing.
C7_TopRowEntered == [][C7_Step]_vars

\* a position opened on a row that outranks another row of the day's report
C7_Witness ==
  /\ Backtest /\ pc = "hold"
  /\ \E report \in DayReports(entry_date) :
       \E i, j \in 1..Len(report) :
         /\ entry = EntryOf(report[i])
         /\ i > 1
         /\ Outranks(report[i], report[j])

\* ------------------------------------------------------------------ C8
C8_Step ==
  /\ (Backtest /\ pc = "seek" /\ current <= last /\ BarsUpTo(current) < 30) =>
       /\ pc' = "seek"
       /\ current' = current + 1
       /\ results' = results
       /\ chain_fetches' = chain_fetches
       /\ UNCHANGED holdVars
  /\ \A d \in chain_fetches' : BarsUpTo(d) >= 30
  /\ \A i \in 1..Len(results') : BarsUpTo(results'[i].entry_date) >= 30

\* C8: on a day whose history up to that day holds fewer than lookback (30)
\* bars the backtest enters no trade, fetches no option chain and only
\* advances to the next day.
C8_ShortWindowOnlyAdvances == [][C8_Step]_vars

\* a short day was passed and a later day fetched the chain
C8_Witness ==
  /\ Backtest
  /\ BarsUpTo(start) < 30
  /\ current > start
  /\ chain_fetches # {}
  /\ start \notin chain_fetches

\* ------------------------------------------------------------------ C9
C9_Step ==
  Len(results') > Len(results) =>
    /\ pc' = "seek"
    /\ current' = results'[Len(results')].entry_date + 1
    /\ \A i, j \in 1..Len(results') :
         i < j => results'[i].entry_date < results'[j].entry_date

\* C9: after a trade is recorded the search resumes on the day after that
\* trade's entry date, not after its exit date; the entry dates of successive
\* trades increase strictly.
C9_ResumeAfterEntry == [][C9_Step]_vars

\* a second trade entered while the first was still held
C9_Witness ==
  /\ Backtest
  /\ Len(results) >= 2
  /\ results[2].entry_date = results[1].entry_date + 1
  /\ results[1].exit_date > results[2].entry_date

\* ----------------------------------------------------------------- C10
\* C10 (as stated): no exception leaves the scan over the symbols or the
\* backtest over the days.
C10_NoExceptionEscapes == mainPc # "raised" /\ pc # "raised"


\* ----------------------------------------------------------------- C11
Pipeline == mode = "calc" /\ call.fn = "pipeline"

\* C11: when the volatility estimate of a symbol (scan) or of a day (backtest)
\* is undefined the symbol or day is skipped: the scan goes no further than
\* its volatility check, no contract of the day gets a theoretical price from
\* a substituted volatility, and the day never reaches an entry.
C11_UndefinedVolSkipped ==
  (Pipeline /\ IsNaN(call.hist_vol)) =>
    /\ call.caller = "scan" => calcPc \in {"call", "skipped"}
    /\ calcPc \in {"priced", "greeks"} =>
         \A i \in 1..Len(ret) : IsNaN(ret[i].theoretical_price)
    /\ calcPc \notin {"entry", "raised"}
    /\ calcPc = "skipped" => ret \in {NoValue, <<>>}

\* a day whose chain holds a live call was priced with an undefined
\* volatility and skipped
C11_Witness ==
  /\ Pipeline /\ call.caller = "backtest" /\ IsNaN(call.hist_vol)
  /\ calcPc = "skipped"
  /\ \E i \in 1..Len(call.chain) :
       call.chain[i].expiration > call.today /\ call.chain[i].type = "call"

\* ------------------------------------------------------ generate_report
ReportCall == mode = "calc" /\ call.fn = "generate_report"
Returned   == ReportCall /\ calcPc = "return"
Latest     == call.indicators[Len(call.indicators)]
NonEmptyInputs == call.df # <<>> /\ call.indicators # <<>>

Defined(row, c) == c \in DOMAIN row /\ row[c] # NaN

DeltaMet(row) ==
  Defined(row, "delta")
  /\ (row.delta >= call.filters.min_delta \/ -row.delta >= call.filters.min_delta)
ThetaMet(row) == Defined(row, "theta") /\ row.theta <= call.filters.max_theta
IVMet(row) ==
  Defined(row, "impliedVolatility") /\ row.impliedVolatility >= call.filters.min_iv
OIMet(row) ==
  Defined(row, "openInterest") /\ row.openInterest >= call.filters.min_open_interest

MeetsCoreFilters(row) == DeltaMet(row) /\ ThetaMet(row) /\ IVMet(row) /\ OIMet(row)

LowerBreak(latest) ==
  Defined(latest, "Close") /\ Defined(latest, "LowerBB")
  /\ latest.Close * 10 <= latest.LowerBB * (10 + call.tech_filters.bb_tolerance)
UpperBreak(latest) ==
  Defined(latest, "Close") /\ Defined(latest, "UpperBB")
  /\ latest.Close * 10 >= latest.UpperBB * (10 - call.tech_filters.bb_tolerance)

\* ----------------------------------------------------------------- C12
SixCount(row, latest) ==
    B2I(Defined(latest, "EMA_Signal") /\ latest.EMA_Signal > 0)
  + B2I(Defined(latest, "MACD_Hist") /\ latest.MACD_Hist > 0)
  + B2I(DeltaMet(row)) + B2I(ThetaMet(row)) + B2I(IVMet(row)) + B2I(OIMet(row))

\* C12 (as stated): the score of every row of the report is the number of
\* satisfied predicates among EMA signal bullish, MACD histogram > 0,
\* |delta| >= min_delta, theta <= max_theta, impliedVolatility >= min_iv and
\* openInterest >= min_open_interest, and nothing else contributes.
C12_ScoreCountsSix ==
  Returned => \A i \in 1..Len(ret) : ret[i].score = SixCount(ret[i], Latest)

\* ----------------------------------------------------------------- C13
FrameHas(cols) == \A i \in 1..Len(call.df) : cols \subseteq DOMAIN call.df[i]

\* C13: when the frame carries the delta, theta, impliedVolatility and
\* openInterest columns, every returned row meets the four core filters at
\* once, and no returned row has one of the four values undefined.
C13_ReturnedRowsPassFilters ==
  (Returned /\ FrameHas(OptionCols)) =>
    \A i \in 1..Len(ret) : MeetsCoreFilters(ret[i])

\* a frame with the four columns of which one row was returned and one dropped
C13_Witness ==
  /\ Returned /\ FrameHas(OptionCols)
  /\ Len(call.df) = 2 /\ Len(ret) = 1
  /\ \E i \in 1..2 : ~Defined(call.df[i], "delta") \/ ~ThetaMet(call.df[i])

\* ----------------------------------------------------------------- C14
PassOptionStage ==
  { i \in 1..Len(call.df) :
      ~(OptionCols \subseteq DOMAIN call.df[i]) \/ MeetsCoreFilters(call.df[i]) }

\* C14: with bb_break_lower enabled rows are returned only if the latest
\* close <= latest LowerBB * (1 + bb_tolerance); with bb_break_upper enabled
\* only if the latest close >= latest UpperBB * (1 - bb_tolerance) (each
\* where the indicator table has the band); with neither enabled the
\* Bollinger values drop no row.
C14_BollingerFilters ==
  (Returned /\ NonEmptyInputs) =>
    /\ (call.tech_filters.bb_break_lower /\ {"Close", "LowerBB"} \subseteq DOMAIN Latest
          /\ ret # <<>>) => LowerBreak(Latest)
    /\ (call.tech_filters.bb_break_upper /\ {"Close", "UpperBB"} \subseteq DOMAIN Latest
          /\ ret # <<>>) => UpperBreak(Latest)
    /\ (~call.tech_filters.bb_break_lower /\ ~call.tech_filters.bb_break_upper) =>
          Len(ret) = Cardinality(PassOptionStage)

\* rows returned under the lower-break filter only thanks to the tolerance
C14_Witness ==
  /\ Returned /\ ret # <<>>
  /\ call.tech_filters.bb_break_lower /\ call.tech_filters.bb_tolerance > 0
  /\ Defined(Latest, "LowerBB") /\ Latest.Close > Latest.LowerBB

\* ----------------------------------------------------------------- C15
LowerStageRuns ==
  call.tech_filters.bb_break_lower /\ {"Close", "LowerBB"} \subseteq DOMAIN Latest
UpperStageRuns ==
  call.tech_filters.bb_break_upper /\ {"Close", "UpperBB"} \subseteq DOMAIN Latest
BandStagesPass ==
  /\ LowerStageRuns => LowerBreak(Latest)
  /\ UpperStageRuns => UpperBreak(Latest)

\* C15: an empty frame or an empty indicator table gives an empty report;
\* otherwise a stage whose column is missing (an indicator column, or one of
\* delta / theta / impliedVolatility / openInterest) is skipped and the other
\* stages still run: the rows returned are those that pass the stages that
\* have their columns, each with a score.
C15_MissingColumnsSkipStage ==
  Returned =>
    /\ ~NonEmptyInputs => ret = <<>>
    /\ NonEmptyInputs =>
         /\ Len(ret) = IF BandStagesPass THEN Cardinality(PassOptionStage) ELSE 0
         /\ \A i \in 1..Len(ret) : "score" \in DOMAIN ret[i]

\* the table lacks LowerBB and the frame lacks a Greek: both stages were
\* skipped and every row came back scored
C15_Witness ==
  /\ Returned /\ NonEmptyInputs
  /\ call.tech_filters.bb_break_lower /\ "LowerBB" \notin DOMAIN Latest
  /\ ~FrameHas(OptionCols)
  /\ Len(ret) = Len(call.df)
  /\ \E i \in 1..Len(ret) : ret[i].score < 3

\* ----------------------------------------------------------------- C16
Satisfied(row, latest) ==
  {p \in {"delta", "theta", "iv", "oi", "bb_lower"} :
     \/ p = "delta" /\ DeltaMet(row)
     \/ p = "theta" /\ ThetaMet(row)
     \/ p = "iv" /\ IVMet(row)
     \/ p = "oi" /\ OIMet(row)
     \/ p = "bb_lower" /\ call.tech_filters.bb_break_lower /\ LowerBreak(latest)}

\* the same contract with other Greeks, in a frame of the same columns
Alternatives(row) ==
  { Without(alt, DOMAIN alt \ DOMAIN row) : alt \in ReportRowSet }

\* C16: for a fixed contract and fixed thresholds the score is monotone in
\* the set of satisfied predicates: an evaluation that satisfies a superset of
\* the predicates of another one scores at least as much.
C16_ScoreMonotone ==
  Returned =>
    /\ \A i, j \in 1..Len(ret) :
         Satisfied(ret[j], Latest) \subseteq Satisfied(ret[i], Latest)
           => ret[i].score >= ret[j].score
    /\ \A i \in 1..Len(ret) : \A alt \in Alternatives(ret[i]) :
         LET altScore == RowScore(WithLatest(alt, Latest), call.filters,
                                  call.tech_filters)
         IN /\ Satisfied(alt, Latest) \subseteq Satisfied(ret[i], Latest)
                 => ret[i].score >= altScore
            /\ Satisfied(ret[i], Latest) \subseteq Satisfied(alt, Latest)
                 => altScore >= ret[i].score

\* two rows of one report, one satisfying strictly more predicates and
\* scoring strictly more
C16_Witness ==
  /\ Returned
  /\ \E i, j \in 1..Len(ret) :
       /\ Satisfied(ret[j], Latest) \subseteq Satisfied(ret[i], Latest)
       /\ Satisfied(ret[j], Latest) # Satisfied(ret[i], Latest)
       /\ ret[i].score > ret[j].score

\* ---------------------------------------------------------- black_scholes
BSCall     == mode = "calc" /\ call.fn = "black_scholes"
BSReturned == BSCall /\ calcPc = "return"
NonPositive(x) == IsNaN(x) \/ x <= 0
KnownKind(kind) == kind \in {"call", "put"}

\* the row's expiration is today, in the past or unparseable
NoTimeLeft(row) == IsNaN(row.expiration) \/ row.expiration <= call.today

\* ----------------------------------------------------------------- C17
\* C17 (as stated): black_scholes returns the undefined value whenever spot,
\* strike, time to expiry or sigma is undefined or not positive, or the
\* option kind is neither call nor put.
C17_UndefinedOnNonPositive ==
  (BSReturned /\ (NonPositive(call.S) \/ NonPositive(call.K) \/ NonPositive(call.T)
                    \/ NonPositive(call.sigma) \/ ~KnownKind(call.option_type)))
    => IsNaN(ret)

\* C17 (amended): black_scholes returns the undefined value, and does not
\* raise, whenever spot, strike or sigma is undefined or not positive, the
\* time to expiry is undefined or negative, or the option kind is neither call
\* nor put; a time to expiry of zero with valid other inputs is priced. In a
\* chain priced with a defined volatility exactly the rows of an unknown kind
\* or without a positive time to expiry get an undefined theoretical price:
\* the other rows are priced.
C17_UndefinedOnInvalid ==
  /\ BSCall => calcPc \in {"call", "return"}
  /\ BSReturned =>
       LET invalid == \/ NonPositive(call.S) \/ NonPositive(call.K)
                      \/ NonPositive(call.sigma)
                      \/ IsNaN(call.T) \/ call.T < 0
                      \/ ~KnownKind(call.option_type)
       IN IsNaN(ret) <=> invalid
  /\ (Pipeline /\ calcPc = "priced" /\ ~IsNaN(call.hist_vol)) =>
       /\ Len(ret) = Len(call.chain)
       /\ \A i \in 1..Len(ret) :
            IsNaN(ret[i].theoretical_price)
              <=> (~KnownKind(call.chain[i].type)
                     \/ NoTimeLeft(call.chain[i]))

\* a chain of two live contracts, the first of an unknown kind, was priced:
\* the first has no theoretical price and the second has one
C17_Witness ==
  /\ Pipeline /\ calcPc = "priced" /\ ~IsNaN(call.hist_vol)
  /\ Len(call.chain) = 2
  /\ call.chain[1].type = "other" /\ call.chain[1].expiration > call.today
  /\ IsNaN(ret[1].theoretical_price)
  /\ ~IsNaN(ret[2].theoretical_price)

\* ----------------------------------------------------------------- C19
\* C19: the value black_scholes returns is undefined or at least 0, never
\* negative, also where the formula itself comes out below 0; the same holds
\* of every theoretical price of a priced chain.
C19_PriceNeverNegative ==
  /\ BSReturned => (IsNaN(ret) \/ ret >= 0)
  /\ (Pipeline /\ calcPc = "priced") =>
       \A i \in 1..Len(ret) :
         IsNaN(ret[i].theoretical_price) \/ ret[i].theoretical_price >= 0

\* a call far out of the money ten days before expiry: the formula's
\* difference of two vanishing products is below 0 and 0 was returned
C19_Witness ==
  /\ BSReturned /\ ret = 0
  /\ call.option_type = "call" /\ call.S < call.K /\ call.T = 10 * DAY
  /\ BSFormula(call.S, call.K, call.T, call.r, call.sigma, call.option_type) < 0

\* ----------------------------------------------------------------- C18
ValidCall ==
  /\ ~NonPositive(call.S) /\ ~NonPositive(call.K) /\ ~NonPositive(call.sigma)
  /\ KnownKind(call.option_type)

\* the value of the formula, floored, at time to expiry T
PriceAt(T) ==
  Floor0(BSFormula(call.S, call.K, T, call.r, call.sigma, call.option_type))

Intrinsic ==
  IF call.option_type = "call" THEN Max(0, call.S - call.K)
  ELSE Max(0, call.K - call.S)

\* equal to 3 decimal places: less than 0.0005 dollar apart
Places3 == MONEY \div 2000
AlmostEqual3(a, b) == Mag(a - b) < Places3

BelowEpsilon == BSReturned /\ ValidCall /\ call.T >= 0 /\ call.T < EPSILON_T

Places4 == MONEY \div 20000
AlmostEqual4(a, b) == Mag(a - b) < Places4

\* the price black_scholes gives the call's arguments for the given kind
PriceOf(kind) ==
  IF call.option_type = kind THEN ret
  ELSE black_scholes(call.S, call.K, call.T, call.r, call.sigma, kind)

\* spot - strike * e^(-r*T)
Forward == call.S - Mul(Exp(-Mul(call.r, (call.T + 50) \div 100)), call.K)

StandardCase ==
  /\ call.S = Dollars(100) /\ call.K = Dollars(100) /\ call.T = TIME
  /\ call.r = 500000 /\ call.sigma = 2000000

AtTheMoney ==
  BSReturned /\ ValidCall /\ call.S = call.K /\ call.T > 0 /\ call.r >= 0

\* C20: put-call parity at the money: for spot = strike, r >= 0, sigma > 0
\* and T > 0 the call price less the put price equals
\* spot - strike * e^(-r*T) to 4 decimal places, and S=K=100, T=1, r=0.05,
\* sigma=0.2 gives the call 10.4506 and the put 5.5735.
C20_PutCallParity ==
  AtTheMoney =>
    /\ AlmostEqual4(PriceOf("call") - PriceOf("put"), Forward)
    /\ StandardCase =>
         /\ AlmostEqual4(PriceOf("call"), 1045060)
         /\ AlmostEqual4(PriceOf("put"), 557350)

\* the put of the standard case returned 5.5735 where the forward value
\* spot - strike * e^(-0.05) is 4.87706
C20_Witness ==
  /\ AtTheMoney /\ StandardCase /\ call.option_type = "put"
  /\ AlmostEqual4(ret, 557350)
  /\ AlmostEqual4(Forward, 487706)

\* ----------------------------------------------------------------- C21
\* C21: a contract whose expiration is today, in the past or unparseable gets
\* an undefined T and an undefined theoretical price, so a defined
\* theoretical price comes with T > 0; compute_greeks returns no row whose T
\* is undefined or <= 0, and neither does the report made from its rows.
C21_PositiveTimeToExpiry ==
  /\ (Pipeline /\ calcPc = "priced") =>
       \A i \in 1..Len(ret) :
         /\ ret[i].contractSymbol = call.chain[i].contractSymbol
         /\ NoTimeLeft(call.chain[i]) =>
              (IsNaN(ret[i].T) /\ IsNaN(ret[i].theoretical_price))
         /\ ~IsNaN(ret[i].theoretical_price) => (~IsNaN(ret[i].T) /\ ret[i].T > 0)
  /\ (Pipeline /\ calcPc = "greeks") =>
       \A i \in 1..Len(ret) :
         /\ ~IsNaN(ret[i].T) /\ ret[i].T > 0
         /\ ~IsNaN(ret[i].expiration) /\ ret[i].expiration > call.today
  /\ (Pipeline /\ calcPc = "entry") =>
       \A i \in 1..Len(ret) :
         ~IsNaN(ret[i].expiration) /\ ret[i].expiration > call.today

\* of a chain of two contracts, the first unparseable or not in the future,
\* compute_greeks returned the second only
C21_Witness ==
  /\ Pipeline /\ calcPc = "greeks" /\ ~IsNaN(call.hist_vol)
  /\ Len(call.chain) = 2 /\ NoTimeLeft(call.chain[1])
  /\ Len(ret) = 1 /\ ret[1].contractSymbol = call.chain[2].contractSymbol
  /\ ~IsNaN(ret[1].theoretical_price) /\ ~IsNaN(ret[1].delta)

\* ----------------------------------------------------------------- C22
HVReturned ==
  mode = "calc" /\ call.fn = "calculate_historical_volatility" /\ calcPc = "return"

\* the non-missing closes supplied, whatever the container
SuppliedCloses == dropna(call.prices.Close)

Identical(c) == \A i, j \in 1..Len(c) : c[i] = c[j]

\* C22 (as stated): with fewer than window+1 non-missing closes, empty and
\* None input included, calculate_historical_volatility returns None, the
\* undefined result the tests require; with window+1 or more identical closes
\* it returns exactly 0.0.
C22_InsufficientDataIsNone ==
  HVReturned =>
    /\ Len(SuppliedCloses) < call.window + 1 => ret = None
    /\ (Len(SuppliedCloses) >= call.window + 1 /\ Identical(SuppliedCloses)) => ret = 0

\* what the function does for a Series: np.nan on fewer than window+1
\* non-missing closes, exactly 0.0 on window+1 or more identical closes
C22_SeriesNaNOrZero ==
  (HVReturned /\ call.prices.kind = "Series") =>
    /\ Len(SuppliedCloses) < call.window + 1 => IsNaN(ret)
    /\ (Len(SuppliedCloses) >= call.window + 1 /\ Identical(SuppliedCloses)) => ret = 0

C22_Witness ==
  /\ HVReturned /\ call.prices = NoneInput /\ call.window = 4 /\ IsNaN(ret)

\* ----------------------------------------------------------------- C23
SampleCloses == <<100, 101, 102, 100, 101>>

\* C23 (as stated): called with a price table holding a Close column of at
\* least window+1 valid closes, calculate_historical_volatility returns a
\* defined volatility, about 0.1914 for the closes 100, 101, 102, 100, 101
\* and a window of 4.
C23_TableGivesVolatility ==
  (HVReturned /\ call.prices.kind = "DataFrame"
     /\ call.prices.Close = SuppliedCloses /\ Len(SuppliedCloses) >= call.window + 1) =>
    /\ ~IsNaN(ret) /\ ret # None /\ ret >= 0
    /\ (call.prices.Close = SampleCloses /\ call.window = 4) =>
         (ret - 1914500 \in -500..500)

\* the same closes handed over as a Series give a defined volatility, for the
\* sample 0.2359 (the standard deviation of its four log returns is 0.01486)
C23_SeriesGivesVolatility ==
  (HVReturned /\ call.prices.kind = "Series"
     /\ call.prices.Close = SuppliedCloses /\ Len(SuppliedCloses) >= call.window + 1) =>
    /\ ~IsNaN(ret) /\ ret # None /\ ret >= 0
    /\ (call.prices.Close = SampleCloses /\ call.window = 4) =>
         (ret - 2358986 \in -500..500)

C23_Witness ==
  /\ HVReturned /\ call.prices = DataFrame(SampleCloses) /\ call.window = 4 /\ IsNaN(ret)

\* ----------------------------------------------------------------- C24
IndReturned == mode = "calc" /\ call.fn = "compute_indicators" /\ calcPc = "return"

BollingerDefined(row) == ~IsNaN(row.MA20) /\ ~IsNaN(row.UpperBB) /\ ~IsNaN(row.LowerBB)
BollingerUndefined(row) == IsNaN(row.MA20) /\ IsNaN(row.UpperBB) /\ IsNaN(row.LowerBB)

\* the closes of rows i-14 .. i are all equal
FlatBefore(i) == \A j \in (i - RSI_WINDOW)..i : call.bars[j] = call.bars[i]

\* C24 (as stated): one row per input bar; MA20, UpperBB, LowerBB and the EMA
\* crossover signal are undefined on every row with fewer than 20 bars of
\* history and RSI on every row with fewer than 14 prior bars; from those
\* thresholds on they are defined.
C24_UndefinedUntilThreshold ==
  IndReturned =>
    /\ Len(ret) = Len(call.bars)
    /\ \A i \in 1..Len(ret) :
         /\ i < BB_WINDOW => (BollingerUndefined(ret[i]) /\ IsNaN(ret[i].EMA_Signal))
         /\ i >= BB_WINDOW => (BollingerDefined(ret[i]) /\ ~IsNaN(ret[i].EMA_Signal))
         /\ i - 1 < RSI_WINDOW => IsNaN(ret[i].RSI)
         /\ i - 1 >= RSI_WINDOW => ~IsNaN(ret[i].RSI)

\* C24 (amended): one row per input bar; MA20, UpperBB and LowerBB are
\* undefined on every row with fewer than 20 bars of history and defined from
\* the 20th row on; the EMA crossover signal is 0 or 1 on every row, 0 on the
\* first; RSI is undefined on every row with fewer than 14 prior bars and from
\* then on is a value in 0..100 unless the row's close and the 14 closes
\* before it are all equal, when it is undefined.
C24_BollingerAndRsiThresholds ==
  IndReturned =>
    /\ Len(ret) = Len(call.bars)
    /\ \A i \in 1..Len(ret) :
         /\ ret[i].Close = call.bars[i]
         /\ i < BB_WINDOW => BollingerUndefined(ret[i])
         /\ i >= BB_WINDOW =>
              /\ BollingerDefined(ret[i])
              /\ ret[i].LowerBB <= ret[i].MA20 /\ ret[i].MA20 <= ret[i].UpperBB
         /\ ret[i].EMA_Signal \in {0, 1}
         /\ i = 1 => ret[i].EMA_Signal = 0
         /\ i - 1 < RSI_WINDOW => IsNaN(ret[i].RSI)
         /\ i - 1 >= RSI_WINDOW =>
              IF FlatBefore(i) THEN IsNaN(ret[i].RSI) ELSE ret[i].RSI \in 0..100

C24_Witness ==
  /\ IndReturned /\ Len(ret) = 21
  /\ IsNaN(ret[19].MA20) /\ ~IsNaN(ret[20].MA20) /\ ret[20].UpperBB > ret[20].LowerBB
  /\ IsNaN(ret[14].RSI) /\ ret[15].RSI \in 1..99
  /\ ret[2].EMA_Signal = 0 /\ ret[21].EMA_Signal = 1

\* ----------------------------------------------------------------- C25
ChainReturned == mode = "calc" /\ call.fn = "get_option_chain" /\ calcPc = "return"

Is2xx(status) == status >= 200 /\ status < 300

RECURSIVE CountDicts(_, _)
CountDicts(items, i) ==
  IF i > Len(items) THEN 0
  ELSE (IF IsDict(items[i]) THEN 1 ELSE 0) + CountDicts(items, i + 1)

\* the option objects a strike lists, in a list or as the values of a dict
OptionsOfStrike(opts) ==
  IF IsList(opts) THEN CountDicts(opts.items, 1)
  ELSE IF IsDict(opts) THEN Len(opts.items)
  ELSE 0

\* the option objects in the lists of a strike
ListedOfStrike(opts) == IF IsList(opts) THEN CountDicts(opts.items, 1) ELSE 0

\* the strike entries [key, opts] under one side of the chain
StrikeEntries(body, side) ==
  IF ~IsDict(body) \/ ~IsDict(Get(body, side)) THEN {}
  ELSE UNION { { Get(body, side).items[e][2].items[k] :
                   k \in 1..Len(Get(body, side).items[e][2].items) } :
               e \in { x \in 1..Len(Get(body, side).items) :
                         IsDict(Get(body, side).items[x][2]) } }

RECURSIVE SumOptions(_)
SumOptions(entries) ==
  IF entries = {} THEN 0
  ELSE OptionsOfStrike((CHOOSE x \in entries : TRUE)[2])
         + SumOptions(entries \ {CHOOSE x \in entries : TRUE})

RECURSIVE SumListed(_)
SumListed(entries) ==
  IF entries = {} THEN 0
  ELSE ListedOfStrike((CHOOSE x \in entries : TRUE)[2])
         + SumListed(entries \ {CHOOSE x \in entries : TRUE})

OptionObjects(body) ==
  SumOptions(StrikeEntries(body, "callExpDateMap"))
    + SumOptions(StrikeEntries(body, "putExpDateMap"))

ListedOptions(body) ==
  SumListed(StrikeEntries(body, "callExpDateMap"))
    + SumListed(StrikeEntries(body, "putExpDateMap"))

BadStrikeKey(body) ==
  \E side \in {"callExpDateMap", "putExpDateMap"} :
    \E kv \in StrikeEntries(body, side) :
      ~IsNumeric(kv[1]) /\ ListedOfStrike(kv[2]) > 0

\* C25 (as stated): for any 2xx response get_option_chain raises nothing and
\* returns exactly one row per option object listed under callExpDateMap and
\* putExpDateMap (none for a map that is missing, not a dict or empty and for
\* a strikes entry that is not a dict); a non-2xx response raises HTTPError.
C25_OneRowPerOption ==
  ChainReturned =>
    IF Is2xx(call.response.status)
      THEN /\ ret.raised = NoError
           /\ Len(ret.records) = OptionObjects(call.response.body)
      ELSE ret.raised = "HTTPError"

\* what the function does: HTTPError for a 4xx or 5xx status; otherwise one
\* row per option object held in a list under a strike, unless the body is
\* not JSON or such a strike's key is not a number, when the call raises
C25_RowsFromLists ==
  ChainReturned =>
    /\ ret.raised = "HTTPError" <=> RaisesForStatus(call.response.status)
    /\ ret.raised = NoError => Len(ret.records) = ListedOptions(call.response.body)
    /\ (~RaisesForStatus(call.response.status) /\ call.response.body # NotJson
          /\ ~BadStrikeKey(call.response.body)) => ret.raised = NoError

C25_Witness ==
  /\ ChainReturned /\ call.response.status = 200
  /\ ret.raised = "ValueError"
  /\ OptionObjects(call.response.body) = 1

\* ----------------------------------------------------------------- C26
\* C26 (as stated): the backtest holds at most one position at a time: for
\* any two recorded trades the later trade's entry date is not before the
\* earlier trade's exit date.
C26_OnePositionAtATime ==
  Backtest =>
    \A i, j \in Trades : i < j => results[j].entry_date >= results[i].exit_date

\* C26 (amended): an iteration of the day loop is either seeking an entry or
\* walking one entered contract to its exit, and at most one trade is entered
\* on a day: the position being walked and every later recorded trade were
\* entered after each earlier recorded trade was entered.  A later trade can
\* be entered before an earlier one has exited.
C26_OneEntryPerDay ==
  Backtest =>
    /\ pc \in {"seek", "hold", "settle", "done", "raised"}
    /\ \A i, j \in Trades : i < j => results[i].entry_date < results[j].entry_date
    /\ pc \in {"hold", "settle"} => \A i \in Trades : results[i].entry_date < entry_date

\* a position is being walked to its exit while an earlier trade, entered the
\* day before, has an exit date still ahead
C26_Witness ==
  /\ Backtest /\ pc = "hold"
  /\ Len(results) = 1
  /\ results[1].entry_date < entry_date
  /\ results[1].exit_date > entry_date

\* ----------------------------------------------------------------- C27
\* the report at hand: the value generate_report returned, or the report of
\* the day on which the backtest enters
ReportAtHand ==
  \/ Returned /\ FrameHas(OptionCols)
  \/ Pipeline /\ calcPc = "entry"

SameScore(report) == \A i, j \in 1..Len(report) : report[i].score = report[j].score

\* no row of the report has a larger mispricing than row r
LargestMispricing(report, r) ==
  \A j \in 1..Len(report) :
    ~IsNaN(report[j].mispricing) =>
      (~IsNaN(r.mispricing) /\ r.mispricing >= report[j].mispricing)

\* C27: in a report for a chain that has the four option columns every row
\* carries the same score, so the row first in (score descending, mispricing
\* descending) order is a row with the largest mispricing.
C27_SameScoreInReport ==
  ReportAtHand =>
    /\ SameScore(ret)
    /\ ret # <<>> => LargestMispricing(ret, TopRow(ret))

\* a report of two different contracts whose top row is not the first
C27_Witness ==
  /\ Pipeline /\ calcPc = "entry"
  /\ Len(ret) = 2
  /\ ret[1].mispricing < ret[2].mispricing
  /\ ret[1].score = ret[2].score
  /\ TopIndex(ret) = 2

\* ----------------------------------------------------------------- C28
\* the chain has been priced and its Greeks computed from call.hist_vol
GreeksComputed == Pipeline /\ call.caller = "backtest" /\ calcPc = "greeks"

\* both undefined, or the same number
SameSigma(a, b) == a = b

\* C28 (as stated): for any volatility estimate passed to both
\* calculate_theoretical_prices and compute_greeks (positive, zero, negative,
\* NaN or None) the sigma used for pricing equals the sigma used for the Greeks.
C28_SameSigma ==
  GreeksComputed =>
    SameSigma(PricingSigma(call.hist_vol), GreeksSigma(call.hist_vol, call.chain))

\* the two sigmas agree when the estimate is positive or NaN
C28_SameSigmaWhenPositive ==
  (GreeksComputed /\ (IsNaN(call.hist_vol) \/ call.hist_vol > 0)) =>
    SameSigma(PricingSigma(call.hist_vol), GreeksSigma(call.hist_vol, call.chain))

\* a flat window: the contract is priced at sigma = 0.5 and its delta is the
\* one of sigma = 0
C28_Witness ==
  /\ GreeksComputed /\ call.hist_vol = 0
  /\ Len(ret) = 1
  /\ ~IsNaN(ret[1].theoretical_price)
  /\ ret[1].theoretical_price =
       black_scholes(Dollars(call.last_close), Dollars(ret[1].strike), ret[1].T,
                     RISK_FREE_RATE, SIGMA_FALLBACK, ret[1].type)
  /\ ret[1].delta = GreekDelta(call.last_close, ret[1].strike, 0)


\* ---------------------------------------------------------------------
\* C29: once the local server has served a GET /callback request, whatever
\* its query string, run_auth_flow eventually leaves its wait loop and
\* attempts the token exchange; it never waits forever after the callback
\* server has shut itself down.
CallbackServed ==
  \E i \in 1..Len(responses) : responses[i].request.path = "/callback"

ExchangeAttempted == authPc \in {"exchange", "done", "failed"}

C29_CallbackLeadsToExchange == CallbackServed ~> ExchangeAttempted

\* ---------------------------------------------------------------------
\* C30: SchwabStreamer.run calls the message callback only with the "data"
\* payload of a received message that has no "response" key, in arrival
\* order; when the receive loop has ended, however it ended, the callback
\* is not called again and the websocket is closed once run has returned.
HasData(raw) ==
  raw.kind = "object" /\ "data" \in raw.keys /\ "response" \notin raw.keys

RECURSIVE DataPayloads(_)
DataPayloads(msgs) ==
  IF msgs = <<>> THEN <<>>
  ELSE IF HasData(Head(msgs))
    THEN <<Head(msgs).data>> \o DataPayloads(Tail(msgs))
    ELSE DataPayloads(Tail(msgs))

LoopEnded == streamPc \in {"finally", "returned"}

C30_CallbackAndClose ==
  /\ [](delivered = DataPayloads(received))
  /\ [](streamPc = "returned" => ~ws.connected)
  /\ [][LoopEnded => LoopEnded' /\ delivered' = delivered]_vars

C30_Witness ==
  /\ streamPc = "returned"
  /\ ~ws.connected
  /\ handler = "Exception"
  /\ delivered = <<2, 1>>
  /\ \E i \in 1..Len(received) :
       received[i].kind = "object" /\ {"response", "data"} \subseteq received[i].keys

====
